---- MODULE Spec2Model ----
(***************************************************************************)
(* A model of gc-utils' coordinate and geometry core.                      *)
(*                                                                         *)
(* Text is a sequence of characters, each character a one-character string *)
(* (the non-ASCII and quoting characters have names: "deg" is the degree   *)
(* sign, "prime" and "dprime" the typographic minute and second marks,     *)
(* "dquote" the ASCII double quote, "tab" a tabulator).                    *)
(*                                                                         *)
(* A parsed or formatted angle is the exact number the float stands for,   *)
(* kept as sign, whole degrees and a fraction counted in units of          *)
(* 1/UnitsPerDeg degree; the sign is kept apart from the magnitude, as in  *)
(* an IEEE double, so that -0.0 and 0.0 are two values.                    *)
(***************************************************************************)
EXTENDS Integers, Sequences, FiniteSets, TLC

\* pc:    where the session stands ("idle", then the name of the last call's stage)
\* given: what the caller composed the arguments from, or the points a
\*        handler parsed from them
\* call:  the call in progress or just finished: its name and arguments
\* ret:   what that call returned or raised
\* trail: the earlier calls of the session, each with its result, or the
\*        rounds of the loop of the call
\* stdout: the lines a command-line handler has printed, in order
VARIABLES pc, given, call, ret, trail, stdout

vars == <<pc, given, call, ret, trail, stdout>>

(***************************************************************************)
(* Characters and the character classes of the four patterns.              *)
(***************************************************************************)
Digit == {"0", "1", "2", "3", "4", "5", "6", "7", "8", "9"}

\* \s
Space == {" ", "tab"}

\* [,\s]
DecimalSep == {","} \cup Space

\* [°\s]
DegreeSep == {"deg"} \cup Space

\* [\'′\s]
MinuteSep == {"'", "prime"} \cup Space

\* [\'\s]
ApostropheSep == {"'"} \cup Space

\* [\"\″]
SecondMark == {"dquote", "dprime"}

\* [NS] and [EW] under re.IGNORECASE
LatLetter == {"N", "S", "n", "s"}

LonLetter == {"E", "W", "e", "w"}

(***************************************************************************)
(* A pattern is a sequence of items: a character class, its quantifier     *)
(* ("one", "opt" for ?, "star" for *, "plus" for +) and the capture group  *)
(* the item lies in (0: none).                                             *)
(***************************************************************************)
Item(cls, q, grp) == [cls |-> cls, q |-> q, grp |-> grp]

\* (-?\d+\.\d+)[,\s]+(-?\d+\.\d+)
decimal_pattern ==
    << Item({"-"}, "opt", 1), Item(Digit, "plus", 1), Item({"."}, "one", 1),
       Item(Digit, "plus", 1),
       Item(DecimalSep, "plus", 0),
       Item({"-"}, "opt", 2), Item(Digit, "plus", 2), Item({"."}, "one", 2),
       Item(Digit, "plus", 2) >>

\* ([NS])\s*(\d+)[°\s]+(\d+)[\'′\s]+(\d+\.?\d*)[\"\″]?\s*,?\s*
\* ([EW])\s*(\d+)[°\s]+(\d+)[\'′\s]+(\d+\.?\d*)[\"\″]?
dms_pattern ==
    << Item(LatLetter, "one", 1), Item(Space, "star", 0),
       Item(Digit, "plus", 2), Item(DegreeSep, "plus", 0),
       Item(Digit, "plus", 3), Item(MinuteSep, "plus", 0),
       Item(Digit, "plus", 4), Item({"."}, "opt", 4), Item(Digit, "star", 4),
       Item(SecondMark, "opt", 0),
       Item(Space, "star", 0), Item({","}, "opt", 0), Item(Space, "star", 0),
       Item(LonLetter, "one", 5), Item(Space, "star", 0),
       Item(Digit, "plus", 6), Item(DegreeSep, "plus", 0),
       Item(Digit, "plus", 7), Item(MinuteSep, "plus", 0),
       Item(Digit, "plus", 8), Item({"."}, "opt", 8), Item(Digit, "star", 8),
       Item(SecondMark, "opt", 0) >>

\* ([NS])\s*(\d+)[°\s]+(\d+\.?\d*)[\'\s]+([EW])\s*(\d+)[°\s]+(\d+\.?\d*)[\'\s]+
ddm_pattern ==
    << Item(LatLetter, "one", 1), Item(Space, "star", 0),
       Item(Digit, "plus", 2), Item(DegreeSep, "plus", 0),
       Item(Digit, "plus", 3), Item({"."}, "opt", 3), Item(Digit, "star", 3),
       Item(ApostropheSep, "plus", 0),
       Item(LonLetter, "one", 4), Item(Space, "star", 0),
       Item(Digit, "plus", 5), Item(DegreeSep, "plus", 0),
       Item(Digit, "plus", 6), Item({"."}, "opt", 6), Item(Digit, "star", 6),
       Item(ApostropheSep, "plus", 0) >>

\* ([NS])\s*(\d+)[°\s]+(\d+\.?\d*)\s+([EW])\s*(\d+)[°\s]+(\d+\.?\d*)
alt_ddm_pattern ==
    << Item(LatLetter, "one", 1), Item(Space, "star", 0),
       Item(Digit, "plus", 2), Item(DegreeSep, "plus", 0),
       Item(Digit, "plus", 3), Item({"."}, "opt", 3), Item(Digit, "star", 3),
       Item(Space, "plus", 0),
       Item(LonLetter, "one", 4), Item(Space, "star", 0),
       Item(Digit, "plus", 5), Item(DegreeSep, "plus", 0),
       Item(Digit, "plus", 6), Item({"."}, "opt", 6), Item(Digit, "star", 6) >>

(***************************************************************************)
(* re.search: a backtracking matcher with greedy quantifiers.  The first   *)
(* start position that admits a match wins, and at each item the longest   *)
(* run is tried first.  A match is the start position and, per item, the   *)
(* position after it.                                                      *)
(***************************************************************************)
NoMatch == [ok |-> FALSE, start |-> 0, ends |-> <<>>]

MinCount(item) == IF item.q \in {"one", "plus"} THEN 1 ELSE 0

\* The longest run of characters of cls from pos on, at most cap long.
RECURSIVE Run(_, _, _, _)
Run(cls, s, pos, cap) ==
    IF cap = 0 \/ pos > Len(s) THEN 0
    ELSE IF s[pos] \notin cls THEN 0
    ELSE 1 + Run(cls, s, pos + 1, cap - 1)

MaxCount(item, s, pos) ==
    Run(item.cls, s, pos, IF item.q \in {"one", "opt"} THEN 1 ELSE Len(s))

RECURSIVE MatchHere(_, _, _, _)
RECURSIVE TryCount(_, _, _, _, _)
\* Item k takes n characters at pos, then n - 1, ... down to its minimum.
TryCount(pat, k, s, pos, n) ==
    IF n < MinCount(pat[k]) THEN NoMatch
    ELSE LET rest == MatchHere(pat, k + 1, s, pos + n)
         IN  IF rest.ok
             THEN [ok |-> TRUE, start |-> 0, ends |-> <<pos + n>> \o rest.ends]
             ELSE TryCount(pat, k, s, pos, n - 1)

MatchHere(pat, k, s, pos) ==
    IF k > Len(pat) THEN [ok |-> TRUE, start |-> 0, ends |-> <<>>]
    ELSE TryCount(pat, k, s, pos, MaxCount(pat[k], s, pos))

RECURSIVE SearchFrom(_, _, _)
SearchFrom(pat, s, start) ==
    IF start > Len(s) + 1 THEN NoMatch
    ELSE LET m == MatchHere(pat, 1, s, start)
         IN  IF m.ok THEN [m EXCEPT !.start = start]
             ELSE SearchFrom(pat, s, start + 1)

Search(pat, s) == SearchFrom(pat, s, 1)

\* match.group(g): the text from the first to the last item of group g.
Group(pat, s, m, g) ==
    LET ks    == {k \in 1..Len(pat) : pat[k].grp = g}
        first == CHOOSE k \in ks : \A j \in ks : k <= j
        last  == CHOOSE k \in ks : \A j \in ks : j <= k
        from  == IF first = 1 THEN m.start ELSE m.ends[first - 1]
    IN  SubSeq(s, from, m.ends[last] - 1)

(***************************************************************************)
(* Numbers.  float() of a captured group, and the float arithmetic of the  *)
(* conversions, in exact arithmetic: an angle is [neg, deg, frac] with     *)
(* frac counted in units of 1/UnitsPerDeg degree.  UnitsPerDeg is the      *)
(* least number that holds six decimals of a degree, five decimals of a    *)
(* minute and three decimals of a second.                                  *)
(***************************************************************************)
UnitsPerDeg == 18 * 1000000

UnitsPerMin == UnitsPerDeg \div 60

UnitsPerSec == UnitsPerDeg \div 3600

DigitChars == <<"0", "1", "2", "3", "4", "5", "6", "7", "8", "9">>

DigitVal(c) == (CHOOSE i \in 1..10 : DigitChars[i] = c) - 1

\* The position of the first "." of s, Len(s) + 1 when it has none.
RECURSIVE DotAt(_, _)
DotAt(s, i) ==
    IF i > Len(s) THEN i
    ELSE IF s[i] = "." THEN i
    ELSE DotAt(s, i + 1)

\* int() of a run of digits.
RECURSIVE IntVal(_)
IntVal(ds) ==
    IF ds = <<>> THEN 0
    ELSE IntVal(SubSeq(ds, 1, Len(ds) - 1)) * 10 + DigitVal(ds[Len(ds)])

\* 0.ds counted in units of 1/base.
RECURSIVE FracUnits(_, _)
FracUnits(ds, base) ==
    IF ds = <<>> THEN 0
    ELSE DigitVal(Head(ds)) * (base \div 10) + FracUnits(Tail(ds), base \div 10)

IsNegText(s) == s # <<>> /\ Head(s) = "-"

Unsigned(s) == IF IsNegText(s) THEN Tail(s) ELSE s

WholeDigits(s) == SubSeq(Unsigned(s), 1, DotAt(Unsigned(s), 1) - 1)

FracDigits(s) == SubSeq(Unsigned(s), DotAt(Unsigned(s), 1) + 1, Len(Unsigned(s)))

\* float(s) that drops the sign of s.
FloatDegrees_Unsigned(s) ==
    [neg  |-> FALSE,
     deg  |-> IntVal(WholeDigits(s)),
     frac |-> FracUnits(FracDigits(s), UnitsPerDeg)]

\* float(s) for s of the shape -?\d+(\.\d*)?, in degrees.
FloatDegrees(s) ==
    [neg  |-> IsNegText(s),
     deg  |-> IntVal(WholeDigits(s)),
     frac |-> FracUnits(FracDigits(s), UnitsPerDeg)]

\* float(s) / 60 and float(s) / 3600, counted in units (base: units per one of s).
FloatUnits(s, base) ==
    IntVal(WholeDigits(s)) * base + FracUnits(FracDigits(s), base)

\* float(deg) + float(min) / 60 + float(sec) / 3600
Sexagesimal(deg, min, sec) ==
    LET units == FloatUnits(min, UnitsPerMin) + FloatUnits(sec, UnitsPerSec)
    IN  [neg  |-> FALSE,
         deg  |-> IntVal(deg) + units \div UnitsPerDeg,
         frac |-> units % UnitsPerDeg]

\* -x
Negate(x) == [x EXCEPT !.neg = ~x.neg]

\* str.upper() of a hemisphere letter
Upper(c) ==
    CASE c = "n" -> "N" [] c = "s" -> "S" [] c = "e" -> "E" [] c = "w" -> "W"
      [] OTHER -> c

\* Signed without str.upper(): a lower-case letter never negates.
Signed_CaseSensitive(dir, letter, value) ==
    IF dir[1] = letter THEN Negate(value) ELSE value

\* if dir.upper() == letter: value = -value
Signed(dir, letter, value) ==
    IF Upper(dir[1]) = letter THEN Negate(value) ELSE value

(***************************************************************************)
(* parse_coordinate.  The result of a call is a record: what it returned   *)
(* (via names the return statement) or the error it raised.                *)
(***************************************************************************)
NoAngle == [neg |-> FALSE, deg |-> 0, frac |-> 0]

Return(grammar, lat, lon) ==
    [raised |-> FALSE, via |-> grammar, lat |-> lat, lon |-> lon, message |-> <<>>]

\* Raise with the fixed text alone, the input left out of the message.
Raise_WithoutInput(message) ==
    [raised |-> TRUE, via |-> "none", lat |-> NoAngle, lon |-> NoAngle,
     message |-> <<Head(message)>>]

Raise(message) ==
    [raised |-> TRUE, via |-> "none", lat |-> NoAngle, lon |-> NoAngle,
     message |-> message]

\* f"Could not parse coordinate string: {coord_string}"
ParseErrorText == "Could not parse coordinate string: "

DecimalResult(s, m) ==
    Return("decimal",
           FloatDegrees(Group(decimal_pattern, s, m, 1)),
           FloatDegrees(Group(decimal_pattern, s, m, 2)))

DmsResult(s, m) ==
    LET g(i) == Group(dms_pattern, s, m, i)
    IN  Return("dms",
               Signed(g(1), "S", Sexagesimal(g(2), g(3), g(4))),
               Signed(g(5), "W", Sexagesimal(g(6), g(7), g(8))))

DdmResult(grammar, pat, s, m) ==
    LET g(i) == Group(pat, s, m, i)
    IN  Return(grammar,
               Signed(g(1), "S", Sexagesimal(g(2), g(3), <<>>)),
               Signed(g(4), "W", Sexagesimal(g(5), g(6), <<>>)))

\* parse_coordinate with the DMS grammar tried before the decimal pair.
parse_coordinate_DmsFirst(coord_string) ==
    LET decimal_match == Search(decimal_pattern, coord_string)
        dms_match     == Search(dms_pattern, coord_string)
        ddm_match     == Search(ddm_pattern, coord_string)
        alt_ddm_match == Search(alt_ddm_pattern, coord_string)
    IN  IF dms_match.ok THEN DmsResult(coord_string, dms_match)
        ELSE IF decimal_match.ok THEN DecimalResult(coord_string, decimal_match)
        ELSE IF ddm_match.ok
             THEN DdmResult("ddm", ddm_pattern, coord_string, ddm_match)
        ELSE IF alt_ddm_match.ok
             THEN DdmResult("alt_ddm", alt_ddm_pattern, coord_string, alt_ddm_match)
        ELSE Raise(<<ParseErrorText>> \o coord_string)

parse_coordinate(coord_string) ==
    LET decimal_match == Search(decimal_pattern, coord_string)
        dms_match     == Search(dms_pattern, coord_string)
        ddm_match     == Search(ddm_pattern, coord_string)
        alt_ddm_match == Search(alt_ddm_pattern, coord_string)
    IN  IF decimal_match.ok THEN DecimalResult(coord_string, decimal_match)
        ELSE IF dms_match.ok THEN DmsResult(coord_string, dms_match)
        ELSE IF ddm_match.ok
             THEN DdmResult("ddm", ddm_pattern, coord_string, ddm_match)
        ELSE IF alt_ddm_match.ok
             THEN DdmResult("alt_ddm", alt_ddm_pattern, coord_string, alt_ddm_match)
        ELSE Raise(<<ParseErrorText>> \o coord_string)

(***************************************************************************)
(* format_coordinate.  A format specification rounds the exact value of    *)
(* the float to the nearest number it can show.  Where the exact value     *)
(* lies halfway between two such numbers, the float product that the code  *)
(* rounds lies on either side of it: tie says which (TRUE: up).            *)
(***************************************************************************)
RECURSIVE Pow10(_)
Pow10(k) == IF k = 0 THEN 1 ELSE 10 * Pow10(k - 1)

Abs(n) == IF n < 0 THEN 0 - n ELSE n

\* units / per, cut off instead of rounded
Rounded_Down(units, per, tie) == units \div per

\* units / per, rounded to the nearest integer
Rounded(units, per, tie) ==
    LET q == units \div per
        r == units % per
    IN  IF 2 * r > per \/ (2 * r = per /\ tie) THEN q + 1 ELSE q

\* str(n) of an int n >= 0
RECURSIVE Digits(_)
Digits(n) ==
    IF n < 10 THEN <<DigitChars[n + 1]>>
    ELSE Digits(n \div 10) \o <<DigitChars[(n % 10) + 1]>>

\* The last width digits of n, zeros included.
RECURSIVE Padded(_, _)
Padded(n, width) ==
    IF width = 0 THEN <<>>
    ELSE Padded(n \div 10, width - 1) \o <<DigitChars[(n % 10) + 1]>>

\* f"{x:.<places>f}" of x = whole + units / per >= 0
FixedText(whole, units, per, places, tie) ==
    LET shown == Rounded(units, per \div Pow10(places), tie)
    IN  Digits(whole + shown \div Pow10(places)) \o <<".">>
            \o Padded(shown % Pow10(places), places)

\* f"{latitude:.6f}": the sign shows whenever the sign bit is set
DecimalText(x, tie) ==
    (IF x.neg THEN <<"-">> ELSE <<>>) \o FixedText(x.deg, x.frac, UnitsPerDeg, 6, tie)

\* latitude >= 0
IsZero(x) == x.deg = 0 /\ x.frac = 0

NonNegative(x) == ~x.neg \/ IsZero(x)

\* f"{lat_dir} {lat_deg}° {lat_min:.3f}'"
DdmAxisText(x, pos, neg, tie) ==
    LET lat_dir == IF NonNegative(x) THEN pos ELSE neg
        lat_deg == x.deg
    IN  <<lat_dir, " ">> \o Digits(lat_deg) \o <<"deg", " ">>
            \o FixedText(0, x.frac, UnitsPerMin, 3, tie) \o <<"'">>

\* f"{lat_dir} {lat_deg}° {lat_min}' {lat_sec:.3f}\""
DmsAxisText(x, pos, neg, tie) ==
    LET lat_dir == IF NonNegative(x) THEN pos ELSE neg
        lat_deg == x.deg
        lat_min == x.frac \div UnitsPerMin
    IN  <<lat_dir, " ">> \o Digits(lat_deg) \o <<"deg", " ">>
            \o Digits(lat_min) \o <<"'", " ">>
            \o FixedText(0, x.frac % UnitsPerMin, UnitsPerSec, 3, tie) \o <<"dquote">>

\* What a call other than parse_coordinate returns or raises.
Returned(value) == [raised |-> FALSE, value |-> value, message |-> <<>>]

ValueError(message) == [raised |-> TRUE, value |-> <<>>, message |-> message]

\* format_coordinate that takes every format it does not know for "ddm".
format_coordinate_DefaultDdm(latitude, longitude, format, tie) ==
    IF format = "decimal"
    THEN Returned(DecimalText(latitude, tie) \o <<",", " ">>
                      \o DecimalText(longitude, tie))
    ELSE IF format = "dms"
    THEN Returned(DmsAxisText(latitude, "N", "S", tie) \o <<" ">>
                      \o DmsAxisText(longitude, "E", "W", tie))
    ELSE Returned(DdmAxisText(latitude, "N", "S", tie) \o <<" ">>
                      \o DdmAxisText(longitude, "E", "W", tie))

format_coordinate(latitude, longitude, format, tie) ==
    IF format = "decimal"
    THEN Returned(DecimalText(latitude, tie) \o <<",", " ">>
                      \o DecimalText(longitude, tie))
    ELSE IF format = "ddm"
    THEN Returned(DdmAxisText(latitude, "N", "S", tie) \o <<" ">>
                      \o DdmAxisText(longitude, "E", "W", tie))
    ELSE IF format = "dms"
    THEN Returned(DmsAxisText(latitude, "N", "S", tie) \o <<" ">>
                      \o DmsAxisText(longitude, "E", "W", tie))
    ELSE ValueError(<<"Unsupported format: ", format>>)

(***************************************************************************)
(* distance and project_waypoint.  The float arithmetic is carried out in  *)
(* fixed point: a point is whole degrees, the argument of sin and cos      *)
(* counts half degrees, their values and those of sqrt count 1/TrigScale,  *)
(* an angle in radians counts 1/TrigScale radian and a distance counts     *)
(* 10 km (or 10 of the unit asked for).  sin is Bhaskara's rational        *)
(* approximation and atan the quadratic one; every quotient is cut off.    *)
(***************************************************************************)
TrigScale == Pow10(4)

\* math.pi, in 1/TrigScale
Pi == 31416

\* sin of m half degrees, 0 <= m <= 360
Bhaskara(m) == (4 * m * (360 - m) * TrigScale) \div (162000 - m * (360 - m))

\* math.sin of h half degrees: periodic and odd
Sin(h) ==
    LET m == h % 720
    IN  IF m <= 360 THEN Bhaskara(m) ELSE 0 - Bhaskara(m - 360)

\* math.cos of h half degrees
Cos(h) == Sin(h + 180)

\* The integer square root of n, between lo and hi.
RECURSIVE SqrtBetween(_, _, _)
SqrtBetween(n, lo, hi) ==
    IF lo >= hi THEN lo
    ELSE LET mid == (lo + hi + 1) \div 2
         IN  IF mid * mid <= n THEN SqrtBetween(n, mid, hi)
             ELSE SqrtBetween(n, lo, mid - 1)

\* math.sqrt of n >= 0
Sqrt(n) == SqrtBetween(n, 0, 2 * TrigScale)

\* math.atan of z / TrigScale, 0 <= z <= TrigScale, in 1/TrigScale radian
Atan(z) == (z * (Pi \div 4 + (2730 * (TrigScale - z)) \div TrigScale)) \div TrigScale

\* math.atan2(y, x), in 1/TrigScale radian
RECURSIVE Atan2(_, _)
Atan2(y, x) ==
    IF y < 0 THEN 0 - Atan2(0 - y, x)
    ELSE IF x < 0 THEN Pi - Atan2(y, 0 - x)
    ELSE IF y = 0 THEN 0
    ELSE IF y <= x THEN Atan((y * TrigScale) \div x)
    ELSE Pi \div 2 - Atan((x * TrigScale) \div y)

\* Earth radius in kilometers
R == 6371

\* Units as text: "sq" is the superscript two.
Km == <<"k", "m">>

Mi == <<"m", "i">>

Nm == <<"n", "m">>

\* raise ValueError(f"Unsupported unit: {unit}")
UnsupportedUnit(unit) == ValueError(<<"Unsupported unit: ">> \o unit)

\* Haversine with the cosine of the first latitude taken twice.
Haversine_FirstLatitudeTwice(coord1, coord2) ==
    LET dlon == coord2.lon - coord1.lon
        dlat == coord2.lat - coord1.lat
    IN  Sin(dlat) * Sin(dlat)
          + (((Cos(2 * coord1.lat) * Cos(2 * coord1.lat)) \div TrigScale) \div 100)
              * ((Sin(dlon) * Sin(dlon)) \div 100)

\* sin(dlat / 2)**2 + cos(lat1) * cos(lat2) * sin(dlon / 2)**2, in 1/TrigScale^2
Haversine(coord1, coord2) ==
    LET dlon == coord2.lon - coord1.lon
        dlat == coord2.lat - coord1.lat
    IN  Sin(dlat) * Sin(dlat)
          + (((Cos(2 * coord1.lat) * Cos(2 * coord2.lat)) \div TrigScale) \div 100)
              * ((Sin(dlon) * Sin(dlon)) \div 100)

distance(coord1, coord2, unit) ==
    LET a == Haversine(coord1, coord2)
        c == 2 * Atan2(Sqrt(a), Sqrt(TrigScale * TrigScale - a))
        distance_km == (R * c) \div (10 * TrigScale)
    IN  IF a < 0 \/ a > TrigScale * TrigScale
        THEN ValueError(<<"math domain error">>)
        ELSE IF unit = Km THEN Returned(distance_km)
        ELSE IF unit = Mi THEN Returned((distance_km * 621371) \div 1000000)
        ELSE IF unit = Nm THEN Returned((distance_km * 539957) \div 1000000)
        ELSE UnsupportedUnit(unit)

\* The distance in 1/100000 km: distance * 1.60934, distance * 1.852
InKilometers(dist, unit) ==
    IF unit = Mi THEN dist * 160934
    ELSE IF unit = Nm THEN dist * 185200
    ELSE dist * 100000

\* math.asin of v / TrigScale
Asin(v) == Atan2(v, Sqrt(TrigScale * TrigScale - v * v))

\* Radians, in 1/TrigScale, as half degrees and as hundredths of a degree.
HalfDegrees(r) == (r * 360) \div Pi

Hundredths(r) == (r * 18000) \div Pi

\* The destination in hundredths of a degree.
project_waypoint(latitude, longitude, dist, bearing, unit) ==
    LET ang_dist == HalfDegrees(InKilometers(dist, unit) \div (10 * R))
        lat1     == 2 * latitude
        sin_lat2 == (Sin(lat1) * Cos(ang_dist)) \div TrigScale
                      + (((Cos(lat1) * Sin(ang_dist)) \div TrigScale)
                            * Cos(2 * bearing)) \div TrigScale
        lat2     == Asin(sin_lat2)
        lon2     == Atan2((((Sin(2 * bearing) * Sin(ang_dist)) \div TrigScale)
                              * Cos(lat1)) \div TrigScale,
                          Cos(ang_dist) - (Sin(lat1) * sin_lat2) \div TrigScale)
    IN  IF Abs(sin_lat2) > TrigScale
        THEN ValueError(<<"math domain error">>)
        ELSE Returned([lat |-> Hundredths(lat2),
                       lon |-> 100 * longitude + Hundredths(lon2)])

(***************************************************************************)
(* circumcenter, circumradius and triangle_area.  The points of a triangle *)
(* are given to a number of decimal places: a coordinate counts            *)
(* 1/10^places degree, and a point is exact.                               *)
(***************************************************************************)
\* x1 * (y2 - y3) + x2 * (y3 - y1) + x3 * (y1 - y2)
Cross(point1, point2, point3) ==
    point1.lat * (point2.lon - point3.lon)
      + point2.lat * (point3.lon - point1.lon)
      + point3.lat * (point1.lon - point2.lon)

\* area == 0 in place of math.isclose
IsCloseToZero_Exact(cross, places, up) == cross = 0

\* math.isclose(0.5 * abs(cross), 0, abs_tol=1e-10), for cross counted in
\* 1/10^(2 * places), places <= 5: |cross| * 10^(10 - 2 * places) <= 2.  The
\* relative tolerance of isclose never decides against 0.  Where the exact
\* area is the tolerance itself, the rounding of the float products decides:
\* up says that the area came out above its exact value.
IsCloseToZero(cross, places, up) ==
    \/ cross = 0
    \/ /\ Abs(cross) * Pow10(5 - places) <= 2
       /\ Abs(cross) * Pow10(5 - places) * Pow10(5 - places) <= 2
       /\ Abs(cross) * Pow10(5 - places) * Pow10(5 - places) = 2 => ~up

CollinearText == "The three points are collinear (lie on a straight line)"

\* x / d; Python's division raises ZeroDivisionError when d is 0.
Quotient(x, d) == [num |-> x, den |-> d]

\* x in place of x**2
Sq_Linear(n) == n

Sq(n) == n * n

\* The circumcenter in 1/10^places degree, each coordinate a quotient.
circumcenter(point1, point2, point3, places, up) ==
    LET x1 == point1.lat
        y1 == point1.lon
        x2 == point2.lat
        y2 == point2.lon
        x3 == point3.lat
        y3 == point3.lon
        d  == 2 * (x1 * (y2 - y3) + x2 * (y3 - y1) + x3 * (y1 - y2))
        ux == (Sq(x1) + Sq(y1)) * (y2 - y3) + (Sq(x2) + Sq(y2)) * (y3 - y1)
                + (Sq(x3) + Sq(y3)) * (y1 - y2)
        uy == (Sq(x1) + Sq(y1)) * (x3 - x2) + (Sq(x2) + Sq(y2)) * (x1 - x3)
                + (Sq(x3) + Sq(y3)) * (x2 - x1)
    IN  IF IsCloseToZero(Cross(point1, point2, point3), places, up)
        THEN ValueError(<<CollinearText>>)
        ELSE IF d = 0 THEN [raised |-> TRUE, value |-> <<>>,
                            message |-> <<"ZeroDivisionError">>]
        ELSE Returned([lat |-> Quotient(ux, d), lon |-> Quotient(uy, d)])

\* A coordinate in whole degrees, as the trigonometry takes it.
WholeDegrees(n, places) == n \div Pow10(places)

DegreesOf(point, places) ==
    [lat |-> WholeDegrees(point.lat, places), lon |-> WholeDegrees(point.lon, places)]

circumradius(point1, point2, point3, unit, places, up) ==
    LET center == circumcenter(point1, point2, point3, places, up)
    IN  IF center.raised THEN center
        ELSE distance([lat |-> WholeDegrees(center.value.lat.num \div center.value.lat.den,
                                            places),
                       lon |-> WholeDegrees(center.value.lon.num \div center.value.lon.den,
                                            places)],
                      DegreesOf(point1, places), unit)

\* unit.replace('²', '')
WithoutSquare(unit) == SelectSeq(unit, LAMBDA c : c # "sq")

\* Heron's formula on the three sides; 16 times the radicand is
\* (a + b + c)(-a + b + c)(a - b + c)(a + b - c), and math.sqrt raises on a
\* negative number.
triangle_area(point1, point2, point3, unit, places) ==
    LET a == distance(DegreesOf(point1, places), DegreesOf(point2, places),
                      WithoutSquare(unit))
        b == distance(DegreesOf(point2, places), DegreesOf(point3, places),
                      WithoutSquare(unit))
        c == distance(DegreesOf(point3, places), DegreesOf(point1, places),
                      WithoutSquare(unit))
        radicand16 == (a.value + b.value + c.value) * (b.value + c.value - a.value)
                        * (a.value - b.value + c.value) * (a.value + b.value - c.value)
    IN  IF a.raised THEN a
        ELSE IF radicand16 < 0 THEN ValueError(<<"math domain error">>)
        ELSE Returned(Sqrt(radicand16) \div 4)

(***************************************************************************)
(* orthocenter.  The floats are quotients of integers, kept in lowest      *)
(* terms with a positive divisor; float('inf') is the quotient 1/0 and nan *)
(* is 0/0.                                                                 *)
(***************************************************************************)
RECURSIVE Gcd(_, _)
Gcd(a, b) == IF b = 0 THEN a ELSE Gcd(b, a % b)

Reduced(num, den) ==
    LET g == Gcd(Abs(num), Abs(den))
    IN  IF g = 0 THEN Quotient(0, 0)
        ELSE IF den < 0 THEN Quotient((0 - num) \div g, (0 - den) \div g)
        ELSE Quotient(num \div g, den \div g)

Whole(n) == Quotient(n, 1)

Inf == Quotient(1, 0)

NaN == Quotient(0, 0)

IsInf(q) == q = Inf

IsFinite(q) == q.den # 0

QAdd(a, b) == Reduced(a.num * b.den + b.num * a.den, a.den * b.den)

QSub(a, b) == Reduced(a.num * b.den - b.num * a.den, a.den * b.den)

QMul(a, b) == Reduced(a.num * b.num, a.den * b.den)

\* a / b, for b # 0
QDiv(a, b) == Reduced(a.num * b.den, a.den * b.num)

\* Python's error for a float division by 0
ZeroDivisionError ==
    [raised |-> TRUE, value |-> <<>>, message |-> <<"ZeroDivisionError">>]

\* The slope of an altitude without the minus sign.
AltitudeSlope_SideSlope(dx, dy) ==
    IF dx = 0 THEN Whole(0)
    ELSE IF dy # 0 THEN Reduced(dx, dy) ELSE Inf

\* The slope of the altitude on a side that runs dx in x and dy in y:
\* 0 if x2 == x3, else -(x3 - x2) / (y3 - y2) if y3 != y2 else float('inf')
AltitudeSlope(dx, dy) ==
    IF dx = 0 THEN Whole(0)
    ELSE IF dy # 0 THEN Reduced(0 - dx, dy) ELSE Inf

\* m * x + b
LineAt(m, x, b) == QAdd(QMul(m, x), b)

\* The points (x4, y4), (x5, y5), (x6, y6) the code computes on the way are
\* never used and their divisions are guarded by m != 0.
orthocenter(point1, point2, point3) ==
    LET x1 == point1.lat
        y1 == point1.lon
        x2 == point2.lat
        y2 == point2.lon
        x3 == point3.lat
        y3 == point3.lon
        m1 == AltitudeSlope(x3 - x2, y3 - y2)
        m2 == AltitudeSlope(x1 - x3, y1 - y3)
        b1 == QSub(Whole(y1), QMul(m1, Whole(x1)))
        b2 == QSub(Whole(y2), QMul(m2, Whole(x2)))
        x  == QDiv(QSub(b2, b1), QSub(m1, m2))
    IN  IF IsInf(m1)
        THEN Returned([lat |-> Whole(x1),
                       lon |-> IF IsInf(m2) THEN NaN ELSE LineAt(m2, Whole(x1), b2)])
        ELSE IF IsInf(m2)
        THEN Returned([lat |-> Whole(x2), lon |-> LineAt(m1, Whole(x2), b1)])
        ELSE IF m1 = Whole(0)
        THEN Returned([lat |-> IF m2 # Whole(0) THEN QDiv(QSub(Whole(y1), b2), m2)
                               ELSE Whole(x2),
                       lon |-> Whole(y1)])
        ELSE IF m2 = Whole(0)
        THEN Returned([lat |-> QDiv(QSub(Whole(y2), b1), m1), lon |-> Whole(y2)])
        ELSE IF m1 = m2 THEN ZeroDivisionError
        ELSE Returned([lat |-> x, lon |-> LineAt(m1, x, b1)])

(***************************************************************************)
(* is_point_inside_polygon.  Points and vertices are whole numbers, so the *)
(* quotient in the crossing test is compared exactly.                      *)
(***************************************************************************)
\* j without the closing edge: the first vertex is its own predecessor.
Previous_NoClosingEdge(i, n) == IF i = 1 THEN 1 ELSE i - 1

\* j in round i of the loop: len(polygon) - 1 at first, then the i before
Previous(i, n) == IF i = 1 THEN n ELSE i - 1

\* The left operand of "and" taken as true: the quotient is evaluated for
\* every edge.
Crosses_Always(point, vi, vj) == TRUE

\* (yi > y) != (yj > y): the right operand of "and", and the quotient in it,
\* is evaluated only when this is true.
Crosses(point, vi, vj) == (vi.lon > point.lon) # (vj.lon > point.lon)

\* ((yi > y) != (yj > y)) and (x < (xj - xi) * (y - yi) / (yj - yi) + xi)
Intersect(point, vi, vj) ==
    /\ Crosses(point, vi, vj)
    /\ IF vj.lon - vi.lon > 0
       THEN (point.lat - vi.lat) * (vj.lon - vi.lon)
              < (vj.lat - vi.lat) * (point.lon - vi.lon)
       ELSE (point.lat - vi.lat) * (vj.lon - vi.lon)
              > (vj.lat - vi.lat) * (point.lon - vi.lon)

\* inside after round i of the loop
RECURSIVE InsideAfter(_, _, _)
InsideAfter(point, polygon, i) ==
    IF i = 0 THEN FALSE
    ELSE LET inside == InsideAfter(point, polygon, i - 1)
         IN  IF Intersect(point, polygon[i], polygon[Previous(i, Len(polygon))])
             THEN ~inside
             ELSE inside

\* Every polygon counts as inside when it has fewer than 3 vertices.
is_point_inside_polygon_ShortIsInside(point, polygon) ==
    IF Len(polygon) < 3 THEN Returned(TRUE)
    ELSE Returned(InsideAfter(point, polygon, Len(polygon)))

\* The rounds of the loop: i, j, whether the quotient is evaluated and what
\* it divides by.
Rounds(point, polygon) ==
    [i \in 1 .. Len(polygon) |->
        LET j == Previous(i, Len(polygon))
        IN  [i |-> i, j |-> j,
             divided |-> Crosses(point, polygon[i], polygon[j]),
             by |-> polygon[j].lon - polygon[i].lon]]

is_point_inside_polygon(point, polygon) ==
    IF Len(polygon) < 3 THEN Returned(FALSE)
    ELSE IF \E i \in 1 .. Len(polygon) :
                Rounds(point, polygon)[i].divided /\ Rounds(point, polygon)[i].by = 0
    THEN ZeroDivisionError
    ELSE Returned(InsideAfter(point, polygon, Len(polygon)))

(***************************************************************************)
(* centroid and bounding_box, on a list of points in whole numbers.        *)
(***************************************************************************)
\* The coordinate of a point on one axis: p[0] is lat, p[1] is lon.
Coordinate(p, axis) == IF axis = 0 THEN p.lat ELSE p.lon

\* The sum without its first term.
RECURSIVE Sum_ButFirst(_, _)
Sum_ButFirst(points, axis) ==
    IF Len(points) <= 1 THEN 0
    ELSE Coordinate(points[Len(points)], axis)
           + Sum_ButFirst(SubSeq(points, 1, Len(points) - 1), axis)

\* sum(p[axis] for p in points)
RECURSIVE Sum(_, _)
Sum(points, axis) ==
    IF points = <<>> THEN 0
    ELSE Coordinate(Head(points), axis) + Sum(Tail(points), axis)

centroid(points) ==
    IF points = <<>>
    THEN ValueError(<<"Cannot calculate centroid of an empty list of points">>)
    ELSE Returned([lat |-> Quotient(Sum(points, 0), Len(points)),
                   lon |-> Quotient(Sum(points, 1), Len(points))])

\* The maximum taken of the first point only.
Max_OfFirst(points, axis) == Coordinate(points[1], axis)

\* min(p[axis] for p in points), max(p[axis] for p in points)
Min(points, axis) ==
    CHOOSE m \in {Coordinate(points[i], axis) : i \in 1 .. Len(points)} :
        \A i \in 1 .. Len(points) : m <= Coordinate(points[i], axis)

Max(points, axis) ==
    CHOOSE m \in {Coordinate(points[i], axis) : i \in 1 .. Len(points)} :
        \A i \in 1 .. Len(points) : m >= Coordinate(points[i], axis)

\* An empty list gives the box of the origin.
bounding_box_EmptyIsOrigin(points) ==
    IF points = <<>>
    THEN Returned(<<[lat |-> 0, lon |-> 0], [lat |-> 0, lon |-> 0]>>)
    ELSE Returned(<<[lat |-> Min(points, 0), lon |-> Min(points, 1)],
                    [lat |-> Max(points, 0), lon |-> Max(points, 1)]>>)

bounding_box(points) ==
    IF points = <<>>
    THEN ValueError(<<"Cannot calculate bounding box of an empty list of points">>)
    ELSE Returned(<<[lat |-> Min(points, 0), lon |-> Min(points, 1)],
                    [lat |-> Max(points, 0), lon |-> Max(points, 1)]>>)

(***************************************************************************)
(* The coordinate strings a caller hands to parse_coordinate.  A string is *)
(* composed of fields; given keeps the fields, so that a property can say  *)
(* what the string means without parsing it.                               *)
(***************************************************************************)
\* The most blanks between a hemisphere letter and the degrees.
MaxPad == 1

Blanks(n) == [i \in 1..n |-> " "]

\* A number as written, with its value in thousandths.
Num(txt, milli) == [txt |-> txt, milli |-> milli]

DegreeMarks == { <<"deg", " ">>, <<" ">>, <<"deg">> }

MinuteMarks == { <<"'", " ">>, <<" ">>, <<"'">>, <<"prime">>, <<>> }

SecondMarks == { <<"dquote">>, <<"dprime", " ">>, <<>> }

Joints == { <<>>, <<" ">>, <<",", " ">> }

\* What surrounds the coordinate: nothing, other text before it, or more text
\* with a decimal number after it.
Wraps ==
    { [prefix |-> <<>>, suffix |-> <<>>],
      [prefix |-> <<"x", " ">>, suffix |-> <<>>],
      [prefix |-> <<>>, suffix |-> <<",", " ", "3", ".", "5">>] }

\* The two hemisphere letters of a coordinate.
LetterPairs == { <<"N", "W">>, <<"S", "E">>, <<"s", "w">> }

\* The numbers of a coordinate: degrees, minutes and seconds of each axis.
Numbers(latDeg, latMin, latSec, lonDeg, lonMin, lonSec) ==
    [latDeg |-> latDeg, latMin |-> latMin, latSec |-> latSec,
     lonDeg |-> lonDeg, lonMin |-> lonMin, lonSec |-> lonSec]

NoNum == Num(<<>>, 0)

\* Decimal minutes where there are no seconds, whole minutes where there are.
NumberSets(shape) ==
    IF shape = "dms"
    THEN { Numbers(Num(<<"4", "7">>, 47000), Num(<<"3", "6">>, 36000),
                   Num(<<"7", ".", "3", "8">>, 7380),
                   Num(<<"1", "2", "2">>, 122000), Num(<<"1", "9">>, 19000),
                   Num(<<"2", "7">>, 27000)),
           Numbers(Num(<<"0">>, 0), Num(<<"0", "0">>, 0),
                   Num(<<"0", ".", "0", "0", "1">>, 1),
                   Num(<<"0", "0", "9">>, 9000), Num(<<"5", "9">>, 59000),
                   Num(<<"5", "9", ".", "9", "9", "9">>, 59999)) }
    ELSE { Numbers(Num(<<"4", "7">>, 47000),
                   Num(<<"3", "6", ".", "1", "2", "3">>, 36123), NoNum,
                   Num(<<"1", "2", "2">>, 122000),
                   Num(<<"1", "9", ".", "4", "5", "6">>, 19456), NoNum),
           Numbers(Num(<<"0">>, 0), Num(<<"3", "6">>, 36000), NoNum,
                   Num(<<"0", "0", "9">>, 9000), Num(<<"5", ".">>, 5000), NoNum) }

\* How a coordinate is written: its shape ("ddm": letter, degrees, minutes;
\* "dms": letter, degrees, minutes, seconds; "after": degrees, minutes, letter),
\* the marks after each field, whether the last field carries its mark, what
\* joins the two axes and what surrounds the coordinate.
Styles ==
    [shape : {"ddm", "dms", "after"}, pad : 0..MaxPad, degMark : DegreeMarks,
     minMark : MinuteMarks, secMark : SecondMarks, endMark : BOOLEAN,
     joint : Joints, wrap : Wraps]

\* The fields that do not show in a shape are fixed, so that each string is
\* composed once.
IsStyle(st) ==
    /\ st.shape # "dms" => st.secMark = <<>>
    /\ st.shape # "ddm" => st.endMark

\* One axis: <dir><pad><deg><mark><min><mark>[<sec><mark>], or with the
\* hemisphere letter last; the last mark of the string is there if endMark.
AxisText(st, dir, deg, min, sec, last) ==
    LET minMark == IF st.shape = "dms" \/ ~last \/ st.endMark THEN st.minMark ELSE <<>>
        fields  == deg.txt \o st.degMark \o min.txt \o minMark
                      \o (IF st.shape = "dms" THEN sec.txt \o st.secMark ELSE <<>>)
    IN  IF st.shape = "after"
        THEN fields \o Blanks(st.pad) \o <<dir>>
        ELSE <<dir>> \o Blanks(st.pad) \o fields

SexagesimalText(st, dirs, n) ==
    st.wrap.prefix \o AxisText(st, dirs[1], n.latDeg, n.latMin, n.latSec, FALSE)
        \o st.joint \o AxisText(st, dirs[2], n.lonDeg, n.lonMin, n.lonSec, TRUE)
        \o st.wrap.suffix

\* Each notation with the numbers of its shape.
StyledNumbers ==
    { p \in {x \in Styles : IsStyle(x)} \X (NumberSets("dms") \cup NumberSets("ddm")) :
        p[2] \in NumberSets(p[1].shape) }

SexagesimalInputs ==
    { [kind |-> "sexagesimal", style |-> p[1], dirs |-> d, nums |-> p[2],
       txt |-> SexagesimalText(p[1], d, p[2])] :
        p \in StyledNumbers, d \in LetterPairs }

\* Decimal degrees as written: with and without sign, fraction and whole part.
DecimalTexts ==
    { <<"4", "7", ".", "6", "0", "2", "0", "5", "0">>,
      <<"-", "1", "2", "2", ".", "3", "2", "4", "1", "9", "4">>,
      <<"-", "0", ".", "5">>,
      <<"1", "2">>,
      <<"5", ".">> }

DecimalSeps == { <<",", " ">>, <<",">>, <<" ">>, <<" ", ",", "tab">>, <<>>, <<";">> }

\* Text before the first number: nothing, a hemisphere letter, another number,
\* a digit, a sign, a dot.
DecimalPrefixes ==
    { <<>>, <<"N", " ">>, <<"1", ".", "5", " ">>, <<"7">>, <<"-">>, <<".">> }

DecimalSuffixes == { <<>>, <<" ", "W">>, <<"9">>, <<".", "2">> }

DecimalInputs ==
    { [kind |-> "decimal", prefix |-> p, first |-> a, sep |-> sp, second |-> b,
       suffix |-> q, txt |-> p \o a \o sp \o b \o q] :
        p \in DecimalPrefixes, a \in DecimalTexts, sp \in DecimalSeps,
        b \in DecimalTexts, q \in DecimalSuffixes }

Inputs == SexagesimalInputs \cup DecimalInputs

(***************************************************************************)
(* The session: one call at a time, each a pure function of its arguments. *)
(***************************************************************************)
Nothing == [op |-> "none"]

Init ==
    /\ pc = "idle"
    /\ given = Nothing
    /\ call = Nothing
    /\ ret = Nothing
    /\ trail = <<>>
    /\ stdout = <<>>

\* The caller composes a coordinate string.
Compose ==
    /\ pc = "idle"
    /\ \E in \in Inputs : given' = in
    /\ pc' = "composed"
    /\ UNCHANGED <<call, ret, trail, stdout>>

\* parse_coordinate(coord_string), of the string the caller composed
ParseCoordinate ==
    /\ pc = "composed"
    /\ call' = [op |-> "parse_coordinate", coord_string |-> given.txt]
    /\ ret' = parse_coordinate(given.txt)
    /\ pc' = "parsed"
    /\ UNCHANGED <<given, trail, stdout>>

\* The session ends; the next one starts from nothing.
Done ==
    /\ pc \notin {"idle", "composed"}
    /\ pc' = "idle"
    /\ given' = Nothing
    /\ call' = Nothing
    /\ ret' = Nothing
    /\ trail' = <<>>
    /\ stdout' = <<>>

(***************************************************************************)
(* The coordinates a caller hands to format_coordinate: values at and next *)
(* to the places where a digit of the output changes.                      *)
(***************************************************************************)
\* How far from such a place, in units, the values lie.
MaxNear == 1

Angle(neg, deg, frac) == [neg |-> neg, deg |-> deg, frac |-> frac]

\* 0, half a millionth and a millionth of a degree, half a thousandth of a
\* minute, a minute, 0.60205, the last millionth below a degree, a degree.
FractionMarks ==
    { 0, 9, 18, 150, UnitsPerMin, 602050 * 18, UnitsPerDeg - 18, UnitsPerDeg }

Fractions ==
    { m + d : m \in FractionMarks, d \in (0 - MaxNear)..MaxNear } \cap 0..(UnitsPerDeg - 1)

Latitudes == { Angle(n, d, f) : n \in BOOLEAN, d \in {0, 47, 89}, f \in Fractions }

Longitudes ==
    { Angle(FALSE, 122, 324194 * 18), Angle(TRUE, 122, 324194 * 18),
      Angle(TRUE, 0, 1), Angle(FALSE, 179, UnitsPerDeg - 1) }

FormatNames == {"decimal", "ddm", "dms", "DMS", "utm"}

\* format_coordinate(latitude, longitude, format), of a coordinate the caller has
FormatCoordinate ==
    /\ pc = "idle"
    /\ \E latitude \in Latitudes, longitude \in Longitudes,
          format \in FormatNames, tie \in BOOLEAN :
          /\ call' = [op |-> "format_coordinate", latitude |-> latitude,
                      longitude |-> longitude, format |-> format, tie |-> tie]
          /\ ret' = format_coordinate(latitude, longitude, format, tie)
    /\ pc' = "formatted"
    /\ UNCHANGED <<given, trail, stdout>>

\* parse_coordinate(coord_string), of the string format_coordinate returned
ParseFormatted ==
    /\ pc = "formatted"
    /\ ~ret.raised
    /\ call' = [op |-> "parse_coordinate", coord_string |-> ret.value]
    /\ ret' = parse_coordinate(ret.value)
    /\ trail' = Append(trail, [call |-> call, ret |-> ret])
    /\ pc' = "reparsed"
    /\ UNCHANGED <<given, stdout>>

\* format_coordinate(lat, lon, format), of the pair parse_coordinate returned,
\* in the format of the first call
FormatParsed ==
    /\ pc = "reparsed"
    /\ ~ret.raised
    /\ \E tie \in BOOLEAN :
          /\ call' = [op |-> "format_coordinate", latitude |-> ret.lat,
                      longitude |-> ret.lon, format |-> trail[1].call.format,
                      tie |-> tie]
          /\ ret' = format_coordinate(ret.lat, ret.lon, trail[1].call.format, tie)
    /\ trail' = Append(trail, [call |-> call, ret |-> ret])
    /\ pc' = "reformatted"
    /\ UNCHANGED <<given, stdout>>

NextFormat == FormatCoordinate \/ ParseFormatted \/ FormatParsed \/ Done

SpecFormat == Init /\ [][NextFormat]_vars

NextParse == Compose \/ ParseCoordinate \/ Done

SpecParse == Init /\ [][NextParse]_vars

(***************************************************************************)
(* The calls of the distance and geometry functions.                       *)
(***************************************************************************)
\* The largest grid coordinate of a point.
MaxCoord == 2

Grid == 0 .. MaxCoord

\* The corners of a triangle, counted in 1/10^places degree.
TrianglePoints == {[lat |-> x, lon |-> y] : x, y \in Grid}

\* places 0 is whole degrees; at places 5 a grid square has the area 1e-10.
Places == {0, 5}

\* The ends of a distance, in whole degrees.
GeoPoints == {[lat |-> 15 * x - 15, lon |-> 40 * y - 40] : x, y \in Grid}

Square(unit) == unit \o <<"sq">>

DistanceUnits == {Km, Mi, Nm, <<"f", "t">>, <<"K", "M">>}

AreaUnits == {Square(Km), Square(Mi), Square(Nm), Km, <<"f", "t", "sq">>}

Lengths == {0, 100, 1000}

Bearings == {0, 90, 225}

\* distance(coord1, coord2, unit)
Distance ==
    /\ pc = "idle"
    /\ \E coord1 \in GeoPoints, coord2 \in GeoPoints, unit \in DistanceUnits :
          /\ call' = [op |-> "distance", coord1 |-> coord1, coord2 |-> coord2,
                      unit |-> unit]
          /\ ret' = distance(coord1, coord2, unit)
    /\ pc' = "measured"
    /\ UNCHANGED <<given, trail, stdout>>

\* distance(coord2, coord1, unit), of the two points of the call before
DistanceBack ==
    /\ pc = "measured"
    /\ call' = [op |-> "distance", coord1 |-> call.coord2, coord2 |-> call.coord1,
                unit |-> call.unit]
    /\ ret' = distance(call.coord2, call.coord1, call.unit)
    /\ trail' = Append(trail, [call |-> call, ret |-> ret])
    /\ pc' = "measured_back"
    /\ UNCHANGED <<given, stdout>>

\* project_waypoint(latitude, longitude, distance, bearing, unit)
ProjectWaypoint ==
    /\ pc = "idle"
    /\ \E start \in GeoPoints, dist \in Lengths, bearing \in Bearings,
          unit \in DistanceUnits :
          /\ call' = [op |-> "project_waypoint", latitude |-> start.lat,
                      longitude |-> start.lon, distance |-> dist,
                      bearing |-> bearing, unit |-> unit]
          /\ ret' = project_waypoint(start.lat, start.lon, dist, bearing, unit)
    /\ pc' = "projected"
    /\ UNCHANGED <<given, trail, stdout>>

\* circumcenter(point1, point2, point3)
Circumcenter ==
    /\ pc = "idle"
    /\ \E point1 \in TrianglePoints, point2 \in TrianglePoints,
          point3 \in TrianglePoints, places \in Places, up \in BOOLEAN :
          /\ call' = [op |-> "circumcenter", point1 |-> point1, point2 |-> point2,
                      point3 |-> point3, places |-> places, up |-> up]
          /\ ret' = circumcenter(point1, point2, point3, places, up)
    /\ pc' = "centered"
    /\ UNCHANGED <<given, trail, stdout>>

\* circumradius(point1, point2, point3, unit)
Circumradius ==
    /\ pc = "idle"
    /\ \E point1 \in TrianglePoints, point2 \in TrianglePoints,
          point3 \in TrianglePoints, places \in Places, up \in BOOLEAN,
          unit \in {Km, Mi, <<"f", "t">>} :
          /\ call' = [op |-> "circumradius", point1 |-> point1, point2 |-> point2,
                      point3 |-> point3, places |-> places, up |-> up,
                      unit |-> unit]
          /\ ret' = circumradius(point1, point2, point3, unit, places, up)
    /\ pc' = "radius"
    /\ UNCHANGED <<given, trail, stdout>>

\* triangle_area(point1, point2, point3, unit)
TriangleArea ==
    /\ pc = "idle"
    /\ \E point1 \in TrianglePoints, point2 \in TrianglePoints,
          point3 \in TrianglePoints, unit \in AreaUnits :
          /\ call' = [op |-> "triangle_area", point1 |-> point1, point2 |-> point2,
                      point3 |-> point3, places |-> 0, unit |-> unit]
          /\ ret' = triangle_area(point1, point2, point3, unit, 0)
    /\ pc' = "area"
    /\ UNCHANGED <<given, trail, stdout>>

\* distance_km * 0.621371 and distance_km * 0.539957, in millionths
MilesPerKm == 621371

NauticalMilesPerKm == 539957

\* The exact product of a and b, both at most a million, as its millions
\* and the rest.
Product(a, b) ==
    LET a1 == a \div 1000
        a0 == a % 1000
        b1 == b \div 1000
        b0 == b % 1000
        low == (((a1 * b0 + a0 * b1) % 1000) * 1000) + a0 * b0
    IN  [millions |-> a1 * b1 + ((a1 * b0 + a0 * b1) \div 1000) + (low \div Pow10(6)),
         rest |-> low % Pow10(6)]

\* What distance returns for a distance_km given in 1/100000 km, in
\* 1/10^11 of the unit.
FromKilometers(distance_km, unit) ==
    IF unit = Mi THEN Product(distance_km, MilesPerKm)
    ELSE IF unit = Nm THEN Product(distance_km, NauticalMilesPerKm)
    ELSE Product(distance_km, Pow10(6))

\* The largest distance converted.
MaxLength == 4

\* project_waypoint converts the distance it is given to kilometers.
ToKm ==
    /\ pc = "idle"
    /\ \E dist \in 1 .. MaxLength, unit \in {Km, Mi, Nm} :
          /\ call' = [op |-> "to_km", distance |-> dist, unit |-> unit]
          /\ ret' = InKilometers(dist, unit)
    /\ pc' = "in_km"
    /\ UNCHANGED <<given, trail, stdout>>

\* distance converts that many kilometers to the unit.
FromKm ==
    /\ pc = "in_km"
    /\ call' = [op |-> "from_km", distance |-> call.distance, unit |-> call.unit,
                distance_km |-> ret]
    /\ ret' = FromKilometers(ret, call.unit)
    /\ pc' = "converted"
    /\ UNCHANGED <<given, trail, stdout>>

NextGeo ==
    \/ Distance
    \/ DistanceBack
    \/ ProjectWaypoint
    \/ ToKm
    \/ FromKm
    \/ Circumcenter
    \/ Circumradius
    \/ TriangleArea
    \/ Done

SpecGeo == Init /\ [][NextGeo]_vars

(***************************************************************************)
(* The calls of the functions on points, triangles and polygons.           *)
(***************************************************************************)
\* orthocenter(point1, point2, point3)
Orthocenter ==
    /\ pc = "idle"
    /\ \E point1 \in TrianglePoints, point2 \in TrianglePoints,
          point3 \in TrianglePoints :
          /\ call' = [op |-> "orthocenter", point1 |-> point1, point2 |-> point2,
                      point3 |-> point3]
          /\ ret' = orthocenter(point1, point2, point3)
    /\ pc' = "orthocentered"
    /\ UNCHANGED <<given, trail, stdout>>

\* The most vertices of a polygon.
MaxVertices == 4

\* Where the vertices of a polygon lie, and the points asked about.
Corners ==
    {[lat |-> 0, lon |-> 0], [lat |-> 0, lon |-> 4], [lat |-> 4, lon |-> 4],
     [lat |-> 4, lon |-> 0], [lat |-> 2, lon |-> 2], [lat |-> 2, lon |-> 0]}

AskedPoints ==
    {[lat |-> 2, lon |-> 2], [lat |-> 6, lon |-> 2], [lat |-> 1, lon |-> 2],
     [lat |-> 3, lon |-> 1], [lat |-> 1, lon |-> 3], [lat |-> 2, lon |-> 1]}

Polygons == UNION {[1 .. n -> Corners] : n \in 0 .. MaxVertices}

\* is_point_inside_polygon(point, polygon)
IsPointInsidePolygon ==
    /\ pc = "idle"
    /\ \E point \in AskedPoints, polygon \in Polygons :
          /\ call' = [op |-> "is_point_inside_polygon", point |-> point,
                      polygon |-> polygon]
          /\ ret' = is_point_inside_polygon(point, polygon)
          /\ trail' = IF Len(polygon) < 3 THEN <<>> ELSE Rounds(point, polygon)
    /\ pc' = "asked"
    /\ UNCHANGED <<given, stdout>>

\* The most points of a list.
MaxPoints == 3

PointLists == UNION {[1 .. n -> TrianglePoints] : n \in 0 .. MaxPoints}

\* centroid(points)
Centroid ==
    /\ pc = "idle"
    /\ \E points \in PointLists :
          /\ call' = [op |-> "centroid", points |-> points]
          /\ ret' = centroid(points)
    /\ pc' = "averaged"
    /\ UNCHANGED <<given, trail, stdout>>

\* bounding_box(points)
BoundingBox ==
    /\ pc = "idle"
    /\ \E points \in PointLists :
          /\ call' = [op |-> "bounding_box", points |-> points]
          /\ ret' = bounding_box(points)
    /\ pc' = "boxed"
    /\ UNCHANGED <<given, trail, stdout>>

NextShape ==
    \/ Orthocenter
    \/ IsPointInsidePolygon
    \/ Centroid
    \/ BoundingBox
    \/ Done

SpecShape == Init /\ [][NextShape]_vars

(***************************************************************************)
(* The command-line handlers geometry_calc.handle and convert_coords.handle.*)
(* stdout is what has been printed; a step of a handler runs up to and     *)
(* with its next print, or up to the raise that ends its try block.        *)
(***************************************************************************)
\* A parsed float as a whole number of degrees, and a quotient as an angle.
PointOf(parsed) ==
    [lat |-> IF parsed.lat.neg THEN 0 - parsed.lat.deg ELSE parsed.lat.deg,
     lon |-> IF parsed.lon.neg THEN 0 - parsed.lon.deg ELSE parsed.lon.deg]

AngleOf(q) ==
    LET r == Reduced(q.num, q.den)
    IN  [neg  |-> r.num < 0,
         deg  |-> Abs(r.num) \div r.den,
         frac |-> (Abs(r.num) % r.den) * (UnitsPerDeg \div r.den)]

\* The decimal text of a point in whole degrees, "-30.0, 30.0": an argument
\* of the handlers.
TextOf(lat, lon) ==
    LET text(n) == (IF n < 0 THEN <<"-">> ELSE <<>>) \o Digits(Abs(n)) \o <<".", "0">>
    IN  text(lat) \o <<",", " ">> \o text(lon)

\* ((point1[0] + point2[0]) / 2, (point1[1] + point2[1]) / 2)
midpoint(point1, point2) ==
    Returned([lat |-> Quotient(point1.lat + point2.lat, 2),
              lon |-> Quotient(point1.lon + point2.lon, 2)])

\* print(f"{label}{text}")
Line(label, text) == <<[label |-> label, text |-> text]>>

\* format_coordinate(center[0], center[1], format=args.format), printed
Formatted(label, r, format) ==
    LET formatted == format_coordinate(AngleOf(r.value.lat), AngleOf(r.value.lon),
                                       format, FALSE)
    IN  IF r.raised THEN r
        ELSE IF formatted.raised THEN formatted
        ELSE Returned(Line(label, formatted.value))

\* args.unit if args.unit else default, and default unless it is allowed
UnitOr(unit, default, allowed) ==
    IF unit = <<>> \/ unit \notin allowed THEN default ELSE unit

\* The points of the arguments, parsed: each mode that needs a number of
\* points asks for it first, and the first string that is no coordinate
\* raises.  The coords handler prints its own message and returns 1 when the
\* number is wrong (code 1); code 0 stands for going on.
parse_points(args) ==
    LET n == Len(args.points)
        parsed(i) == parse_coordinate(args.points[i])
        unparsed == {i \in 1 .. n : parsed(i).raised}
        needs == IF args.mode \in {"circumcenter", "triangle-area"} THEN 3
                 ELSE IF args.mode \in {"midpoint", "distance"} THEN 2
                 ELSE IF args.mode = "convert" THEN 1
                 ELSE n
    IN  IF n # needs
        THEN IF args.mode = "convert"
             THEN Returned([code |-> 1, lines |->
                      Line("Error: ", <<"Coordinate conversion requires exactly one coordinate">>)])
             ELSE IF args.mode = "distance"
             THEN Returned([code |-> 1, lines |->
                      Line("Error: ", <<"Distance calculation requires exactly two coordinates">>)])
             ELSE ValueError(<<IF args.mode = "circumcenter"
                               THEN "Circumcenter calculation requires exactly 3 points"
                               ELSE IF args.mode = "midpoint"
                               THEN "Midpoint calculation requires exactly 2 points"
                               ELSE "Triangle area calculation requires exactly 3 points">>)
        ELSE IF unparsed # {}
        THEN ValueError(parsed(CHOOSE i \in unparsed : \A j \in unparsed : i <= j).message)
        ELSE Returned([code |-> 0, points |-> [i \in 1 .. n |-> parsed(i)]])

\* The try block of geometry_calc.handle after the points are parsed, up to
\* its last print but the circumradius: the lines printed, or the error raised
\* before any of them.
geometry_try(args, points) ==
    LET n == Len(points)
        point(i) == PointOf(points[i])
        unit == UnitOr(args.unit, Square(Km), {Square(Km), Square(Mi), Square(Nm)})
        area == triangle_area(point(1), point(2), point(3), unit, 0)
        box == bounding_box([i \in 1 .. n |-> point(i)])
        low == format_coordinate(AngleOf(Whole(box.value[1].lat)),
                                 AngleOf(Whole(box.value[1].lon)), args.format, FALSE)
        high == format_coordinate(AngleOf(Whole(box.value[2].lat)),
                                  AngleOf(Whole(box.value[2].lon)), args.format, FALSE)
    IN  IF args.mode = "circumcenter"
        THEN Formatted("Circumcenter: ",
                       circumcenter(point(1), point(2), point(3), 0, FALSE), args.format)
        ELSE IF args.mode = "centroid"
        THEN Formatted("Centroid: ", centroid([i \in 1 .. n |-> point(i)]), args.format)
        ELSE IF args.mode = "midpoint"
        THEN Formatted("Midpoint: ", midpoint(point(1), point(2)), args.format)
        ELSE IF args.mode = "triangle-area"
        THEN IF area.raised THEN area
             ELSE Returned(Line("Triangle area: ", <<area.value, unit>>))
        ELSE IF box.raised THEN box
        ELSE IF low.raised THEN low
        ELSE IF high.raised THEN high
        ELSE Returned(Line("Bounding Box:", <<>>)
                        \o Line("  Southwest corner: ", low.value)
                        \o Line("  Northeast corner: ", high.value))

\* if args.radius: geometry.circumradius(point1, point2, point3, unit=unit)
geometry_radius(args, points) ==
    LET unit == UnitOr(args.unit, Km, {Km, Mi, Nm})
        radius == circumradius(PointOf(points[1]), PointOf(points[2]),
                               PointOf(points[3]), unit, 0, FALSE)
    IN  IF radius.raised THEN radius
        ELSE Returned(Line("Circumradius: ", <<radius.value, unit>>))

\* The try block of convert_coords.handle after the points are parsed: the
\* line printed, or the error raised.
coords_try(args, points) ==
    LET formatted == format_coordinate(points[1].lat, points[1].lon, args.format, FALSE)
        dist == distance(PointOf(points[1]), PointOf(points[2]), args.unit)
    IN  IF args.mode = "convert"
        THEN IF formatted.raised THEN formatted
             ELSE Returned(Line("", formatted.value))
        ELSE IF dist.raised THEN dist
        ELSE Returned(Line("Distance: ", <<dist.value, args.unit>>))

\* A triple whose circumcenter (210, -150) is, on the sphere, its first point.
FarApart == <<TextOf(0 - 30, 30), TextOf(0 - 90, 0 - 150), TextOf(30, 90)>>

\* The argument lists (nargs='+'): one and two points, a right triangle, a
\* collinear triple, the triple far apart and one with a string that is no
\* coordinate.
PointArguments ==
    {<<TextOf(0, 0)>>,
     <<TextOf(0, 0), TextOf(0, 2)>>,
     <<TextOf(0, 0), TextOf(0, 2), TextOf(2, 0)>>,
     <<TextOf(0, 0), TextOf(1, 1), TextOf(2, 2)>>,
     FarApart,
     <<TextOf(0, 0), <<"x">>, TextOf(2, 0)>>}

\* handle(args) is entered with arguments the parser lets through: nothing is
\* printed yet.  --radius and --unit are read by the modes that are given
\* them here.  The sides of the triple far apart are beyond the range the
\* area is computed in, so it is given to the other modes.
Handle ==
    /\ pc = "idle"
    /\ \E points \in PointArguments, format \in {"decimal", "ddm"},
          mode \in {"circumcenter", "centroid", "midpoint", "triangle-area",
                    "bounding-box", "convert", "distance"},
          radius \in BOOLEAN, unit \in {<<>>, Km, Mi, Square(Mi), <<"f", "t">>} :
          /\ radius => mode = "circumcenter"
          /\ mode \in {"convert", "distance"} => unit \in {Km, Mi}
          /\ mode = "circumcenter" => unit \in {<<>>, Mi, <<"f", "t">>}
          /\ mode = "triangle-area" =>
                unit \in {<<>>, Square(Mi), <<"f", "t">>} /\ points # FarApart
          /\ mode \in {"centroid", "midpoint", "bounding-box", "convert"} => unit = Km
          /\ mode = "distance" => format = "decimal"
          /\ call' = [op |-> IF mode \in {"convert", "distance"}
                             THEN "convert_coords.handle"
                             ELSE "geometry_calc.handle",
                      mode |-> mode, points |-> points, format |-> format,
                      radius |-> radius, unit |-> unit]
    /\ pc' = "try"
    /\ stdout' = <<>>
    /\ UNCHANGED <<given, ret, trail>>

\* The handlers count and parse their points before they compute.
ParsePoints ==
    /\ pc = "try"
    /\ \E r \in {parse_points(call)} :
          IF r.raised
          THEN /\ ret' = r
               /\ pc' = "except"
               /\ UNCHANGED <<given, stdout>>
          ELSE IF r.value.code = 1
          THEN /\ stdout' = stdout \o r.value.lines
               /\ ret' = [code |-> 1]
               /\ pc' = "exited"
               /\ UNCHANGED given
          ELSE /\ given' = [op |-> "parsed", points |-> r.value.points]
               /\ pc' = "parsed"
               /\ UNCHANGED <<ret, stdout>>
    /\ UNCHANGED <<call, trail>>

\* geometry_calc.handle: the try block up to its last print but the radius
GeometryTry ==
    /\ pc = "parsed"
    /\ call.op = "geometry_calc.handle"
    /\ \E r \in {geometry_try(call, given.points)} :
          IF r.raised
          THEN /\ ret' = r
               /\ pc' = "except"
               /\ UNCHANGED stdout
          ELSE /\ stdout' = stdout \o r.value
               /\ pc' = IF call.mode = "circumcenter" /\ call.radius
                        THEN "radius" ELSE "return"
               /\ UNCHANGED ret
    /\ UNCHANGED <<given, call, trail>>

\* geometry_calc.handle: the circumradius, after the circumcenter is printed
GeometryRadius ==
    /\ pc = "radius"
    /\ \E r \in {geometry_radius(call, given.points)} :
          IF r.raised
          THEN /\ ret' = r
               /\ pc' = "except"
               /\ UNCHANGED stdout
          ELSE /\ stdout' = stdout \o r.value
               /\ pc' = "return"
               /\ UNCHANGED ret
    /\ UNCHANGED <<given, call, trail>>

\* convert_coords.handle: the try block, after the points are parsed
CoordsTry ==
    /\ pc = "parsed"
    /\ call.op = "convert_coords.handle"
    /\ \E r \in {coords_try(call, given.points)} :
          IF r.raised
          THEN /\ ret' = r
               /\ pc' = "except"
               /\ UNCHANGED stdout
          ELSE /\ stdout' = stdout \o r.value
               /\ pc' = "return"
               /\ UNCHANGED ret
    /\ UNCHANGED <<given, call, trail>>

\* except ValueError as e: print(f"Error: {str(e)}"); return 1
Except ==
    /\ pc = "except"
    /\ stdout' = stdout \o Line("Error: ", ret.message)
    /\ ret' = [code |-> 1]
    /\ pc' = "exited"
    /\ UNCHANGED <<given, call, trail>>

\* return 0
ReturnZero ==
    /\ pc = "return"
    /\ ret' = [code |-> 0]
    /\ pc' = "exited"
    /\ UNCHANGED <<given, call, trail, stdout>>

\* The process ends.
Exit ==
    /\ pc = "exited"
    /\ pc' = "idle"
    /\ given' = Nothing
    /\ call' = Nothing
    /\ ret' = Nothing
    /\ trail' = <<>>
    /\ stdout' = <<>>

NextCli ==
    \/ Handle
    \/ ParsePoints
    \/ GeometryTry
    \/ GeometryRadius
    \/ CoordsTry
    \/ Except
    \/ ReturnZero
    \/ Exit

SpecCli == Init /\ [][NextCli]_vars

(***************************************************************************)
(* puzzle_helpers and ciphers.  A text is a sequence of characters; the    *)
(* characters are the printable ASCII ones, chr(32) to chr(126), and one   *)
(* letter that is not ASCII in its two cases, chr(201) and chr(233).       *)
(***************************************************************************)
AsciiChars ==
    <<" ", "!", "dquote", "#", "$", "%", "&", "'", "(", ")", "*", "+", ",", "-", ".", "/",
      "0", "1", "2", "3", "4", "5", "6", "7", "8", "9", ":", ";", "<", "=", ">", "?",
      "@", "A", "B", "C", "D", "E", "F", "G", "H", "I", "J", "K", "L", "M", "N", "O",
      "P", "Q", "R", "S", "T", "U", "V", "W", "X", "Y", "Z", "[", "backslash", "]", "^", "_",
      "backtick", "a", "b", "c", "d", "e", "f", "g", "h", "i", "j", "k", "l", "m", "n", "o",
      "p", "q", "r", "s", "t", "u", "v", "w", "x", "y", "z", "{", "|", "}", "~">>

\* ord(c) and chr(n); the other characters are all written "unprintable",
\* and no text that is read holds one.
ord(c) ==
    IF c = "Eacute" THEN 201
    ELSE IF c = "eacute" THEN 233
    ELSE 31 + CHOOSE i \in 1 .. Len(AsciiChars) : AsciiChars[i] = c

chr(n) ==
    IF n >= 32 /\ n <= 126 THEN AsciiChars[n - 31]
    ELSE IF n = 201 THEN "Eacute"
    ELSE IF n = 233 THEN "eacute"
    ELSE "unprintable"

\* c.isupper(), c.islower(), c.isalpha(), c.upper(), c.lower()
isupper(c) == (ord(c) >= 65 /\ ord(c) <= 90) \/ ord(c) = 201

islower(c) == (ord(c) >= 97 /\ ord(c) <= 122) \/ ord(c) = 233

isalpha(c) == isupper(c) \/ islower(c)

upper(c) == IF islower(c) THEN chr(ord(c) - 32) ELSE c

lower(c) == IF isupper(c) THEN chr(ord(c) + 32) ELSE c

\* text.split(): the runs of characters that are no whitespace
RECURSIVE split(_)
split(text) ==
    IF text = <<>> THEN <<>>
    ELSE IF Head(text) \in Space THEN split(Tail(text))
    ELSE LET ends == {i \in 1 .. Len(text) : text[i] \in Space}
             stop == IF ends = {} THEN Len(text) + 1
                     ELSE CHOOSE i \in ends : \A j \in ends : i <= j
         IN  <<SubSeq(text, 1, stop - 1)>> \o split(SubSeq(text, stop, Len(text)))

\* ' '.join(words)
RECURSIVE join(_)
join(words) ==
    IF words = <<>> THEN <<>>
    ELSE IF Len(words) = 1 THEN words[1]
    ELSE words[1] \o <<" ">> \o join(Tail(words))

\* int(x) takes a sign and digits; str(n) writes them.
IsInt(x) ==
    LET digits == IF x # <<>> /\ Head(x) \in {"-", "+"} THEN Tail(x) ELSE x
    IN  digits # <<>> /\ \A i \in 1 .. Len(digits) : digits[i] \in Digit

int(x) ==
    IF Head(x) = "-" THEN 0 - IntVal(Tail(x))
    ELSE IF Head(x) = "+" THEN IntVal(Tail(x))
    ELSE IntVal(x)

str(n) == IF n < 0 THEN <<"-">> \o Digits(0 - n) ELSE Digits(n)

\* The largest code point chr takes.
MaxCodePoint == 1114111

\* ascii_to_text of a string: the text, or one of its two error texts.
ascii_to_text(ascii_list) ==
    LET values == split(ascii_list)
    IN  IF \E i \in 1 .. Len(values) : ~IsInt(values[i])
        THEN <<"Error: Could not parse input as ASCII values">>
        ELSE IF \E i \in 1 .. Len(values) :
                    int(values[i]) < 0 \/ int(values[i]) > MaxCodePoint
        THEN <<"Error: Invalid ASCII values">>
        ELSE [i \in 1 .. Len(values) |-> chr(int(values[i]))]

\* [ord(c) for c in text]
text_to_ascii(text) == [i \in 1 .. Len(text) |-> ord(text[i])]

\* text[::-1]
reverse_text(text) == [i \in 1 .. Len(text) |-> text[Len(text) + 1 - i]]

\* ' '.join(text.split()[::-1])
reverse_words(text) == join(reverse_text(split(text)))

\* for num in numbers: adjusted = num - offset, and the numbers that are no
\* letter then are left out.
Lettered(numbers, offset) ==
    LET letters == SelectSeq([i \in 1 .. Len(numbers) |-> numbers[i] - offset],
                             LAMBDA adjusted : 1 <= adjusted /\ adjusted <= 26)
    IN  [i \in 1 .. Len(letters) |-> chr(letters[i] + 64)]

\* number_to_letter of a string of numbers
number_to_letter(numbers, offset) ==
    LET values == split(numbers)
    IN  IF \E i \in 1 .. Len(values) : ~IsInt(values[i])
        THEN ValueError(<<"invalid literal for int() with base 10">>)
        ELSE Returned(Lettered([i \in 1 .. Len(values) |-> int(values[i])], offset))

\* [ord(c.upper()) - 64 - offset for c in text if c.isalpha()]
letter_to_number(text, offset) ==
    LET letters == SelectSeq(text, isalpha)
    IN  [i \in 1 .. Len(letters) |-> ord(upper(letters[i])) - 64 - offset]

\* The loop of vigenere_decode from position j of the key on, the key
\* advancing on every character.
RECURSIVE Decoded_AdvanceAlways(_, _, _)
Decoded_AdvanceAlways(text, key, j) ==
    LET char == Head(text)
        key_code == ord(key[(j % Len(key)) + 1]) - 97
        decoded_char == chr(((ord(lower(char)) - 97 - key_code) % 26) + 97)
    IN  IF text = <<>> THEN <<>>
        ELSE IF isalpha(char)
        THEN <<IF isupper(char) THEN upper(decoded_char) ELSE decoded_char>>
               \o Decoded_AdvanceAlways(Tail(text), key, j + 1)
        ELSE <<char>> \o Decoded_AdvanceAlways(Tail(text), key, j + 1)

\* The loop of vigenere_decode from position j of the key on; the key is
\* lower-cased and not empty.
RECURSIVE Decoded(_, _, _)
Decoded(text, key, j) ==
    LET char == Head(text)
        key_code == ord(key[(j % Len(key)) + 1]) - 97
        decoded_char == chr(((ord(lower(char)) - 97 - key_code) % 26) + 97)
    IN  IF text = <<>> THEN <<>>
        ELSE IF isalpha(char)
        THEN <<IF isupper(char) THEN upper(decoded_char) ELSE decoded_char>>
               \o Decoded(Tail(text), key, j + 1)
        ELSE <<char>> \o Decoded(Tail(text), key, j)

\* vigenere_decode; j % key_length divides by zero at the first letter when
\* the key is empty.
vigenere_decode(text, key) ==
    IF key = <<>>
    THEN IF \E i \in 1 .. Len(text) : isalpha(text[i]) THEN ZeroDivisionError
         ELSE Returned(text)
    ELSE Returned(Decoded(text, [i \in 1 .. Len(key) |-> lower(key[i])], 0))

\* text.strip()
RECURSIVE strip(_)
strip(text) ==
    IF text = <<>> THEN <<>>
    ELSE IF Head(text) \in Space THEN strip(Tail(text))
    ELSE IF text[Len(text)] \in Space THEN strip(SubSeq(text, 1, Len(text) - 1))
    ELSE text

\* sorted(a) == sorted(b): the same characters, each as often
SortedEqual(a, b) ==
    /\ Len(a) = Len(b)
    /\ \A c \in {a[i] : i \in 1 .. Len(a)} :
          Cardinality({i \in 1 .. Len(a) : a[i] = c})
            = Cardinality({i \in 1 .. Len(b) : b[i] = c})

\* A wordlist is None, a file that cannot be read, or a file and its lines.
NoWordlist == [kind |-> "None"]

Unreadable == [kind |-> "unreadable"]

Wordlist(lines) == [kind |-> "file", lines |-> lines]

\* set(perms) of itertools.permutations(letters.lower().strip()), and the
\* orders list(set(perms)) can have.
Perms(letters) ==
    LET lowered == strip([i \in 1 .. Len(letters) |-> lower(letters[i])])
    IN  {[i \in 1 .. Len(lowered) |-> lowered[p[i]]] :
            p \in Permutations(1 .. Len(lowered))}

Orders(letters) ==
    {order \in [Perms(letters) -> 1 .. Cardinality(Perms(letters))] :
        \A v, w \in Perms(letters) : order[v] = order[w] => v = w}

\* anagram_solver; order is the order list(set(perms)) happens to have.
anagram_solver(letters, wordlist, order) ==
    LET lowered == strip([i \in 1 .. Len(letters) |-> lower(letters[i])])
        perms == Perms(letters)
        sorted_letters == SelectSeq(lowered, LAMBDA c : c # " ")
        word(i) == strip([k \in 1 .. Len(wordlist.lines[i]) |->
                              lower(wordlist.lines[i][k])])
        found == SelectSeq([i \in 1 .. Len(wordlist.lines) |-> word(i)],
                           LAMBDA w : SortedEqual(w, sorted_letters))
        n == Len(lowered)
    IN  IF wordlist.kind = "unreadable" THEN <<<<"Error reading wordlist: ">>>>
        ELSE IF wordlist.kind = "file" THEN found
        ELSE IF n > 8
        THEN <<<<"Warning: String too long for permutation (> 8 chars). Provide a wordlist.">>>>
        ELSE [i \in 1 .. Cardinality(perms) |->
                 CHOOSE w \in perms : order[w] = i]

\* The try block of puzzle_tools.handle: the lines printed and the code
\* returned with them (0 stands for the return 0 that ends the block), or the
\* error raised.
tools_try(args, order) ==
    LET found == anagram_solver(args.input, args.wordlist, order)
        letters == number_to_letter(args.input, args.offset)
        numbers == letter_to_number(args.input, args.offset)
        shown == IF Len(found) > 100 THEN SubSeq(found, 1, 100) ELSE found
    IN  IF args.mode = "ascii-to-text"
        THEN Returned([code |-> 0, lines |-> Line("", ascii_to_text(args.input))])
        ELSE IF args.mode = "text-to-ascii"
        THEN Returned([code |-> 0, lines |->
                 Line("", join([i \in 1 .. Len(args.input) |->
                                   str(text_to_ascii(args.input)[i])]))])
        ELSE IF args.mode = "anagram"
        THEN Returned([code |-> 0, lines |->
                 Line("Found ", <<Len(found)>>)
                   \o [i \in 1 .. Len(shown) |-> [label |-> "", text |-> shown[i]]]
                   \o (IF Len(found) > 100 THEN Line("... and ", <<Len(found) - 100>>)
                       ELSE <<>>)])
        ELSE IF args.mode = "a1z26"
        THEN IF args.direction = "None"
             THEN Returned([code |-> 1, lines |->
                      Line("Error: ", <<"--direction is required for a1z26 mode">>)])
             ELSE IF args.direction = "to-numbers"
             THEN Returned([code |-> 0, lines |->
                      Line("", join([i \in 1 .. Len(numbers) |-> str(numbers[i])]))])
             ELSE IF letters.raised THEN letters
             ELSE Returned([code |-> 0, lines |-> Line("", letters.value)])
        ELSE Returned([code |-> 0, lines |->
                 Line("", IF args.words_only THEN reverse_words(args.input)
                          ELSE reverse_text(args.input))])

\* The inputs of the tools command: code points and numbers, words, and text
\* that is neither.
ToolInputs ==
    {<<"7", "2", " ", "1", "0", "5">>,
     <<"1", " ", "2", "7">>,
     <<"-", "1">>,
     <<"1", "1", "1", "4", "1", "1", "2">>,
     <<"a", "b">>,
     <<"H", "i", " ", "y", "o", "u">>,
     <<"7", "2", " ", "x">>,
     <<>>}

Wordlists ==
    {NoWordlist, Unreadable, Wordlist(<<<<"b", "a">>, <<"A", "b", " ">>, <<"c">>>>)}

\* puzzle_tools.handle(args) is entered with arguments the parser lets
\* through, each option with the mode that reads it: nothing is printed yet.
ToolsHandle ==
    /\ pc = "idle"
    /\ \E mode \in {"ascii-to-text", "text-to-ascii", "anagram", "a1z26", "reverse"},
          input \in ToolInputs, wordlist \in Wordlists,
          direction \in {"None", "to-numbers", "to-letters"},
          offset \in {0 - 1, 0, 1}, words_only \in BOOLEAN :
          /\ mode # "anagram" => wordlist = NoWordlist
          /\ mode = "anagram" => Len(input) <= 2
          /\ mode # "a1z26" => direction = "None" /\ offset = 0
          /\ mode # "reverse" => ~words_only
          /\ call' = [op |-> "puzzle_tools.handle", mode |-> mode, input |-> input,
                      wordlist |-> wordlist, direction |-> direction,
                      offset |-> offset, words_only |-> words_only]
    /\ pc' = "try"
    /\ stdout' = <<>>
    /\ UNCHANGED <<given, ret, trail>>

\* puzzle_tools.handle: the try block
ToolsTry ==
    /\ pc = "try"
    /\ \E order \in IF call.mode = "anagram" THEN Orders(call.input) ELSE {<<>>} :
          \E r \in {tools_try(call, order)} :
              IF r.raised
              THEN /\ ret' = r
                   /\ pc' = "except"
                   /\ UNCHANGED stdout
              ELSE /\ stdout' = stdout \o r.value.lines
                   /\ IF r.value.code = 1
                      THEN ret' = [code |-> 1] /\ pc' = "exited"
                      ELSE pc' = "return" /\ UNCHANGED ret
    /\ UNCHANGED <<given, call, trail>>

\* Except stands for except Exception as well: print(f"Error: {str(e)}");
\* return 1.
NextTools ==
    \/ ToolsHandle
    \/ ToolsTry
    \/ Except
    \/ ReturnZero
    \/ Exit

SpecTools == Init /\ [][NextTools]_vars

\* The longest text, and the largest offset either way.
MaxText == 3

MaxOffset == 2

\* The texts: letters of both cases, the last letter of the alphabet, a
\* letter that is not ASCII, a digit, a blank and a mark.
TextChars == {"R", "i", "z", "A", "eacute", "7", " ", "!"}

Texts ==
    UNION {[1 .. n -> TextChars] : n \in 0 .. MaxText}
      \cup {<<"R", "i", "j", "v", "s", ",", " ", "u", "y", "v", "j", "n", "!">>}

Keys == {<<"k", "e", "y">>, <<"K", "e">>, <<"b">>, <<"k", "1">>, <<>>}

\* letter_to_number(text, offset)
LetterToNumber ==
    /\ pc = "idle"
    /\ \E text \in Texts, offset \in (0 - MaxOffset) .. MaxOffset :
          /\ call' = [op |-> "letter_to_number", text |-> text, offset |-> offset]
          /\ ret' = letter_to_number(text, offset)
    /\ pc' = "numbered"
    /\ UNCHANGED <<given, trail, stdout>>

\* number_to_letter(numbers, offset), of the numbers and the offset of the
\* call before
NumberToLetter ==
    /\ pc = "numbered"
    /\ call' = [op |-> "number_to_letter", text |-> call.text, numbers |-> ret,
                offset |-> call.offset]
    /\ ret' = Lettered(ret, call.offset)
    /\ pc' = "lettered"
    /\ UNCHANGED <<given, trail, stdout>>

\* vigenere_decode(text, key)
VigenereDecode ==
    /\ pc = "idle"
    /\ \E text \in Texts, key \in Keys :
          /\ call' = [op |-> "vigenere_decode", text |-> text, key |-> key]
          /\ ret' = vigenere_decode(text, key)
    /\ pc' = "decoded"
    /\ UNCHANGED <<given, trail, stdout>>

NextPuzzle ==
    \/ LetterToNumber
    \/ NumberToLetter
    \/ VigenereDecode
    \/ Done

SpecPuzzle == Init /\ [][NextPuzzle]_vars

(***************************************************************************)
(* Properties of parse_coordinate.                                         *)
(***************************************************************************)
\* The position after the longest run of characters of cls that starts at i.
RECURSIVE SpanEnd(_, _, _)
SpanEnd(s, i, cls) ==
    IF i <= Len(s) /\ s[i] \in cls THEN SpanEnd(s, i + 1, cls) ELSE i

\* The position after the fractional decimal number that starts at i: an
\* optional sign, digits, a dot, digits, each run taken whole; 0 when there
\* is no such number at i.
NumberEnd(s, i) ==
    LET a == IF i <= Len(s) /\ s[i] = "-" THEN i + 1 ELSE i
        b == SpanEnd(s, a, Digit)
        c == SpanEnd(s, b + 1, Digit)
    IN  IF b > a /\ b <= Len(s) /\ s[b] = "." /\ c > b + 1 THEN c ELSE 0

\* The two numbers of the decimal pair that starts at i, <<>> when none does.
PairAt(s, i) ==
    LET j == NumberEnd(s, i)
        k == SpanEnd(s, j, DecimalSep)
        l == NumberEnd(s, k)
    IN  IF j > 0 /\ k > j /\ l > 0
        THEN <<SubSeq(s, i, j - 1), SubSeq(s, k, l - 1)>>
        ELSE <<>>

HasDecimalPair(s) == \E i \in 1..Len(s) : PairAt(s, i) # <<>>

\* The leftmost decimal pair of s.
FirstPair(s) ==
    PairAt(s, CHOOSE i \in 1..Len(s) :
                  PairAt(s, i) # <<>> /\ \A h \in 1..(i - 1) : PairAt(s, h) = <<>>)

HasMatch(pat, s) == Search(pat, s).ok

\* C1: parse_coordinate tries decimal pair, DMS, DDM with apostrophe, DDM
\* without apostrophe in this order, each as a search anywhere in the input,
\* and returns the conversion of the first that matches: an input that holds
\* two fractional decimal numbers separated only by commas and white space
\* yields those two numbers (the leftmost such pair) whatever hemisphere
\* letters and other text surround them, and a later grammar gives the result
\* only when every earlier one fails.
C1_FirstGrammarWins ==
    pc = "parsed" =>
        LET s   == call.coord_string
            dms == Search(dms_pattern, s)
            ddm == Search(ddm_pattern, s)
            alt == Search(alt_ddm_pattern, s)
        IN  IF HasDecimalPair(s)
            THEN ret = Return("decimal", FloatDegrees(FirstPair(s)[1]),
                              FloatDegrees(FirstPair(s)[2]))
            ELSE IF dms.ok THEN ret = DmsResult(s, dms)
            ELSE IF ddm.ok THEN ret = DdmResult("ddm", ddm_pattern, s, ddm)
            ELSE IF alt.ok THEN ret = DdmResult("alt_ddm", alt_ddm_pattern, s, alt)
            ELSE ret.via = "none"

\* C1's case: a string with hemisphere letters that the DDM grammar matches
\* holds a decimal pair, and the decimal pair is the result.
C1_Witness ==
    /\ pc = "parsed"
    /\ given.kind = "sexagesimal"
    /\ HasMatch(alt_ddm_pattern, call.coord_string)
    /\ ret.via = "decimal"
    /\ ret.lat = [neg |-> FALSE, deg |-> 19, frac |-> 456 * (UnitsPerDeg \div 1000)]

\* t occurs in s.
Contains(s, t) == \E i \in 1..(Len(s) - Len(t) + 1) : SubSeq(s, i, i + Len(t) - 1) = t

\* C2: parse_coordinate raises exactly when none of the four grammars matches
\* its input; the error's message holds the input and no coordinate comes
\* back; when a grammar matches it returns a pair and raises nothing.
C2_ErrorIffNoMatch ==
    pc = "parsed" =>
        LET s    == call.coord_string
            none == /\ ~HasDecimalPair(s)
                    /\ ~HasMatch(dms_pattern, s)
                    /\ ~HasMatch(ddm_pattern, s)
                    /\ ~HasMatch(alt_ddm_pattern, s)
        IN  /\ ret.raised <=> none
            /\ ret.raised =>
                  /\ Contains(ret.message, s)
                  /\ ret.via = "none" /\ ret.lat = NoAngle /\ ret.lon = NoAngle
            /\ ~ret.raised =>
                  /\ ret.message = <<>>
                  /\ ret.via \in {"decimal", "dms", "ddm", "alt_ddm"}

\* C2's case: a non-empty string no grammar matches has been parsed.
C2_Witness ==
    /\ pc = "parsed"
    /\ ret.raised
    /\ given.kind = "decimal"
    /\ given.sep = <<";">>
    /\ Len(call.coord_string) > Len(given.first)

\* degrees + minutes/60 + seconds/3600 of numbers given in thousandths,
\* negated if neg.
ExpectedAngle(neg, deg, min, sec) ==
    LET units == min.milli * (UnitsPerMin \div 1000) + sec * (UnitsPerSec \div 1000)
    IN  [neg  |-> neg,
         deg  |-> deg.milli \div 1000 + units \div UnitsPerDeg,
         frac |-> units % UnitsPerDeg]

\* The grammar that returned is the one the caller wrote the string in.
ParsedAsWritten ==
    /\ pc = "parsed"
    /\ given.kind = "sexagesimal"
    /\ \/ given.style.shape = "dms" /\ ret.via = "dms"
       \/ given.style.shape = "ddm" /\ ret.via \in {"ddm", "alt_ddm"}

\* N 47° 36.123 W 122° 19.456
DdmExample ==
    <<"N", " ", "4", "7", "deg", " ", "3", "6", ".", "1", "2", "3", " ",
      "W", " ", "1", "2", "2", "deg", " ", "1", "9", ".", "4", "5", "6">>

\* C3: a string matched by the DMS or a DDM grammar yields, per axis,
\* degrees + minutes/60 + seconds/3600 (no seconds in DDM), negated exactly
\* when the latitude letter is S or the longitude letter is W, in upper or
\* lower case; "N 47° 36.123 W 122° 19.456" yields
\* (47 + 36.123/60, -(122 + 19.456/60)).
C3_SexagesimalConversion ==
    /\ ParsedAsWritten =>
          LET n   == given.nums
              dms == given.style.shape = "dms"
          IN  /\ ret.lat = ExpectedAngle(given.dirs[1] \in {"S", "s"}, n.latDeg,
                                         n.latMin, IF dms THEN n.latSec.milli ELSE 0)
              /\ ret.lon = ExpectedAngle(given.dirs[2] \in {"W", "w"}, n.lonDeg,
                                         n.lonMin, IF dms THEN n.lonSec.milli ELSE 0)
    /\ pc = "parsed" /\ call.coord_string = DdmExample =>
          /\ ~ret.raised
          /\ ret.lat = [neg |-> FALSE, deg |-> 47, frac |-> 36123 * (UnitsPerMin \div 1000)]
          /\ ret.lon = [neg |-> TRUE, deg |-> 122, frac |-> 19456 * (UnitsPerMin \div 1000)]

\* C3's case: a DMS string with lower-case s and w has been parsed, its
\* seconds counted and both axes negated.
C3_Witness ==
    /\ ParsedAsWritten
    /\ ret.via = "dms"
    /\ given.dirs = <<"s", "w">>
    /\ ret.lat = [neg |-> TRUE, deg |-> 47,
                  frac |-> 36 * UnitsPerMin + 7380 * (UnitsPerSec \div 1000)]
    /\ ret.lon.neg

\* The notation of the docstring's second example: 47° 36.123' N, 122° 19.456' W
HemisphereAfterValue ==
    /\ given.kind = "sexagesimal"
    /\ given.style.shape = "after"
    /\ given.style.degMark = <<"deg", " ">>
    /\ given.style.minMark = <<"'", " ">>
    /\ given.style.pad = 0
    /\ given.style.joint = <<",", " ">>
    /\ given.style.wrap = [prefix |-> <<>>, suffix |-> <<>>]

\* C4: parse_coordinate supports the notation with the hemisphere letter after
\* the value, as its docstring lists it: "<deg>° <min>' <N|S>, <deg>° <min>'
\* <E|W>" yields the coordinate it denotes instead of an error.
C4_HemisphereAfterValue ==
    pc = "parsed" /\ HemisphereAfterValue =>
        /\ ~ret.raised
        /\ ret.lat = ExpectedAngle(given.dirs[1] \in {"S", "s"}, given.nums.latDeg,
                                   given.nums.latMin, 0)
        /\ ret.lon = ExpectedAngle(given.dirs[2] \in {"W", "w"}, given.nums.lonDeg,
                                   given.nums.lonMin, 0)

(***************************************************************************)
(* Properties of format_coordinate and of the round trip through           *)
(* parse_coordinate.                                                       *)
(***************************************************************************)
\* The first call of the session and what it returned.
First == IF trail = <<>> THEN [call |-> call, ret |-> ret] ELSE trail[1]

\* x is a whole number of millionths of a degree.
SixPlaces(x) == x.frac % (UnitsPerDeg \div 1000000) = 0

\* C5: for every coordinate given to 6 decimal places (negative values and
\* values with whole part 0 included), the 'decimal' output of
\* format_coordinate is accepted by parse_coordinate through the decimal-pair
\* grammar, and formatting the parsed pair as 'decimal' again yields the
\* identical string.
C5_DecimalRoundTrip ==
    /\ First.call.op = "format_coordinate"
    /\ First.call.format = "decimal"
    /\ SixPlaces(First.call.latitude) /\ SixPlaces(First.call.longitude)
    => /\ pc = "reparsed" => ~ret.raised /\ ret.via = "decimal"
       /\ pc = "reformatted" => ~ret.raised /\ ret.value = First.ret.value

\* C5's case: a negative latitude with whole part 0 went through format,
\* parse and format.
C5_Witness ==
    /\ pc = "reformatted"
    /\ First.call.format = "decimal"
    /\ First.call.latitude = Angle(TRUE, 0, 18)
    /\ SixPlaces(First.call.longitude)
    /\ Head(ret.value) = "-"

\* -1, 0 or 1
Sign(x) == IF IsZero(x) THEN 0 ELSE IF x.neg THEN 0 - 1 ELSE 1

\* |a - b| in units; a whole degree when they lie further apart than that.
Apart(a, b) ==
    IF a.neg = b.neg
    THEN IF Abs(a.deg - b.deg) <= 1
         THEN Abs((a.deg - b.deg) * UnitsPerDeg + a.frac - b.frac)
         ELSE UnitsPerDeg
    ELSE IF a.deg = 0 /\ b.deg = 0 THEN a.frac + b.frac ELSE UnitsPerDeg

\* Twice the displayed precision in units: 0.0005 minute, 0.0005 second.
TwicePrecision(format) ==
    IF format = "ddm" THEN UnitsPerMin \div 1000 ELSE UnitsPerSec \div 1000

\* The 'ddm' output is parsed by the DDM grammar with apostrophe and the
\* 'dms' output by the DMS grammar, to within the displayed precision.
SexagesimalRoundTrip ==
    /\ ~ret.raised
    /\ ret.via = First.call.format
    /\ 2 * Apart(ret.lat, First.call.latitude) <= TwicePrecision(First.call.format)
    /\ 2 * Apart(ret.lon, First.call.longitude) <= TwicePrecision(First.call.format)

Reparsed(formats) ==
    /\ pc = "reparsed"
    /\ First.call.op = "format_coordinate"
    /\ First.call.format \in formats

\* C6 as claimed: the 'ddm' and 'dms' outputs of format_coordinate are parsed
\* back by the grammar of their notation, never by the decimal-pair grammar;
\* the parsed value differs from the original by no more than the displayed
\* precision and has the same sign on each axis.
C6_SameSign ==
    Reparsed({"ddm", "dms"}) =>
        /\ SexagesimalRoundTrip
        /\ Sign(ret.lat) = Sign(First.call.latitude)
        /\ Sign(ret.lon) = Sign(First.call.longitude)

\* C6, amended: as claimed, but of the sign only that it never turns into the
\* opposite one: the parsed value has the sign of the original or is zero.
C6_SexagesimalRoundTrip ==
    Reparsed({"ddm", "dms"}) =>
        /\ SexagesimalRoundTrip
        /\ Sign(ret.lat) \in {0, Sign(First.call.latitude)}
        /\ Sign(ret.lon) \in {0, Sign(First.call.longitude)}

\* C6's case: a negative latitude shown in 'dms' with its seconds rounded up
\* to 60.000 has been parsed back, negative.
C6_Witness ==
    /\ Reparsed({"dms"})
    /\ First.call.latitude = Angle(TRUE, 47, UnitsPerMin - 1)
    /\ ret.via = "dms"
    /\ ret.lat = Angle(TRUE, 47, UnitsPerMin)

\* C7: format_coordinate returns a string for the formats decimal, ddm and
\* dms, and for every other format raises the unsupported-format error and
\* returns no string.
C7_UnsupportedFormat ==
    pc = "formatted" =>
        /\ ret.raised <=> call.format \notin {"decimal", "ddm", "dms"}
        /\ ret.raised =>
              /\ ret.value = <<>>
              /\ ret.message = <<"Unsupported format: ", call.format>>
        /\ ~ret.raised => ret.value # <<>> /\ ret.message = <<>>

\* C7's case: a call with an unknown format has raised.
C7_Witness ==
    /\ pc = "formatted"
    /\ call.format = "utm"
    /\ ret.raised

(***************************************************************************)
(* Properties of the distance and geometry functions.                      *)
(***************************************************************************)
\* The units a function documents.
Enumeration(op) ==
    IF op = "triangle_area" THEN {Square(Km), Square(Mi), Square(Nm)}
    ELSE {Km, Mi, Nm}

\* C8: every function that takes a unit (distance, project_waypoint,
\* circumradius, triangle_area) raises the unsupported-unit error and returns
\* no value whenever the unit is outside the units it documents.
C8_UnsupportedUnitFails ==
    /\ pc \in {"measured", "measured_back", "projected", "radius", "area"}
    /\ call.unit \notin Enumeration(call.op)
    => /\ ret.raised
       /\ ret.value = <<>>
       /\ ret.message # <<>>
       /\ ret.message[1] = "Unsupported unit: "

\* C9: distance is symmetric: with the two points exchanged and the same
\* supported unit it returns the same number.
C9_DistanceSymmetric ==
    pc = "measured_back" /\ call.unit \in {Km, Mi, Nm} =>
        /\ ~ret.raised
        /\ ~trail[1].ret.raised
        /\ ret.value = trail[1].ret.value

\* C9's case: the distance in miles between two points of different latitude
\* and longitude has been taken both ways.
C9_Witness ==
    /\ pc = "measured_back"
    /\ call.unit = Mi
    /\ call.coord1.lat # call.coord2.lat
    /\ call.coord1.lon # call.coord2.lon
    /\ ret.value > 0

\* (x2 - x1)(y3 - y1) - (x3 - x1)(y2 - y1): twice the signed area
Det(point1, point2, point3) ==
    (point2.lat - point1.lat) * (point3.lon - point1.lon)
      - (point3.lat - point1.lat) * (point2.lon - point1.lon)

\* 0.5 * |det| / 10^(2 * places) <= 1e-10, as the floats have it: below
\* places 5 only det = 0 is within the tolerance, and an area of exactly the
\* tolerance is within it unless the floats came out above.
WithinTolerance(det, places, up) ==
    IF places < 5 THEN det = 0
    ELSE \/ Abs(det) < 2 * Pow10(2 * places - 10)
         \/ Abs(det) = 2 * Pow10(2 * places - 10) /\ ~up

\* C10: circumcenter raises the collinear-points error exactly when
\* 0.5 * |x1(y2 - y3) + x2(y3 - y1) + x3(y1 - y2)| <= 1e-10, so for every
\* collinear triple and every triple with two equal points, and for every
\* other triple returns a coordinate and never divides by zero.
C10_CollinearExactly ==
    pc = "centered" =>
        LET det == Det(call.point1, call.point2, call.point3)
        IN  /\ ret.raised <=> WithinTolerance(det, call.places, call.up)
            /\ ret.raised => ret.value = <<>> /\ ret.message = <<CollinearText>>
            /\ ~ret.raised => ret.value.lat.den # 0 /\ ret.value.lon.den # 0
            /\ det = 0 => ret.raised
            /\ \/ call.point1 = call.point2
               \/ call.point2 = call.point3
               \/ call.point1 = call.point3
               => ret.raised

\* C10's case: a triangle that is not collinear, of area 0.5e-10, has raised
\* the collinear-points error.
C10_Witness ==
    /\ pc = "centered"
    /\ call.places = 5
    /\ call.point1 = [lat |-> 0, lon |-> 0]
    /\ call.point2 = [lat |-> 0, lon |-> 1]
    /\ call.point3 = [lat |-> 1, lon |-> 0]
    /\ ret.raised
    /\ ret.message = <<CollinearText>>

\* The squared planar distance of the quotient point center from point, times
\* the square of the common divisor: (num - x * den)^2 + (num - y * den)^2.
SquaredDistance(center, point) ==
    LET dx == center.lat.num - point.lat * center.lat.den
        dy == center.lon.num - point.lon * center.lat.den
    IN  dx * dx + dy * dy

\* C11: the point circumcenter returns for a triple that is not collinear has
\* the same squared distance, in the (latitude, longitude) plane, to each of
\* the three points; for (0,0),(0,2),(2,0) it is (1,1).
C11_Equidistant ==
    pc = "centered" /\ ~ret.raised =>
        /\ ret.value.lat.den = ret.value.lon.den
        /\ SquaredDistance(ret.value, call.point1) = SquaredDistance(ret.value, call.point2)
        /\ SquaredDistance(ret.value, call.point2) = SquaredDistance(ret.value, call.point3)
        /\ /\ call.point1 = [lat |-> 0, lon |-> 0]
           /\ call.point2 = [lat |-> 0, lon |-> 2]
           /\ call.point3 = [lat |-> 2, lon |-> 0]
           => /\ ret.value.lat.num = ret.value.lat.den
              /\ ret.value.lon.num = ret.value.lon.den

\* C11's case: circumcenter has returned (1,1) for the right triangle
\* (0,0),(0,2),(2,0) in whole degrees.
C11_Witness ==
    /\ pc = "centered"
    /\ call.places = 0
    /\ call.point1 = [lat |-> 0, lon |-> 0]
    /\ call.point2 = [lat |-> 0, lon |-> 2]
    /\ call.point3 = [lat |-> 2, lon |-> 0]
    /\ ~ret.raised
    /\ ret.value.lat.num = ret.value.lat.den
    /\ ret.value.lon.num = ret.value.lon.den

\* (H - p) . (a - b), times the divisors of H
Dot(H, p, a, b) ==
    (H.lat.num - p.lat * H.lat.den) * H.lon.den * (a.lat - b.lat)
      + (H.lon.num - p.lon * H.lon.den) * H.lat.den * (a.lon - b.lon)

\* C12: for every triple of points that is not collinear, sides of equal
\* latitude or equal longitude included, orthocenter divides by no zero and
\* returns a finite point H on the altitudes through p1 and p2:
\* (H - p1).(p3 - p2) = 0 and (H - p2).(p1 - p3) = 0.
C12_OnTheAltitudes ==
    /\ pc = "orthocentered"
    /\ Det(call.point1, call.point2, call.point3) # 0
    => /\ ~ret.raised
       /\ IsFinite(ret.value.lat) /\ IsFinite(ret.value.lon)
       /\ Dot(ret.value, call.point1, call.point3, call.point2) = 0
       /\ Dot(ret.value, call.point2, call.point1, call.point3) = 0

\* C12's case: orthocenter has returned for a triangle whose side p2 p3 has
\* equal latitudes and whose side p1 p3 has equal longitudes.
C12_Witness ==
    /\ pc = "orthocentered"
    /\ Det(call.point1, call.point2, call.point3) # 0
    /\ call.point2.lat = call.point3.lat
    /\ call.point1.lon = call.point3.lon
    /\ ~ret.raised

\* p lies on the segment from a to b.
OnSegment(p, a, b) ==
    /\ Det(a, b, p) = 0
    /\ (p.lat - a.lat) * (p.lat - b.lat) <= 0
    /\ (p.lon - a.lon) * (p.lon - b.lon) <= 0

\* p lies inside the triangle a b c, not on a side.
InTriangle(p, a, b, c) ==
    \/ Det(a, b, p) > 0 /\ Det(b, c, p) > 0 /\ Det(c, a, p) > 0
    \/ Det(a, b, p) < 0 /\ Det(b, c, p) < 0 /\ Det(c, a, p) < 0

\* The segments a b and c d have a point in common.
SegmentsMeet(a, b, c, d) ==
    \/ Det(a, b, c) * Det(a, b, d) < 0 /\ Det(c, d, a) * Det(c, d, b) < 0
    \/ OnSegment(c, a, b) \/ OnSegment(d, a, b)
    \/ OnSegment(a, c, d) \/ OnSegment(b, c, d)

\* A triangle, or a quadrilateral whose opposite sides do not meet and whose
\* neighbouring sides are not in line: convex or with one reflex corner.
SimplePolygon(q) ==
    \/ Len(q) = 3 /\ Det(q[1], q[2], q[3]) # 0
    \/ /\ Len(q) = 4
       /\ Det(q[1], q[2], q[3]) # 0 /\ Det(q[2], q[3], q[4]) # 0
       /\ Det(q[3], q[4], q[1]) # 0 /\ Det(q[4], q[1], q[2]) # 0
       /\ ~SegmentsMeet(q[1], q[2], q[3], q[4])
       /\ ~SegmentsMeet(q[2], q[3], q[4], q[1])

OnBoundary(p, q) ==
    \E i \in 1 .. Len(q) : OnSegment(p, q[i], q[IF i = 1 THEN Len(q) ELSE i - 1])

\* p is inside the simple polygon q: inside one of the two triangles the
\* inner diagonal cuts a quadrilateral into, or on that diagonal.
StrictlyInside(p, q) ==
    IF Len(q) = 3 THEN InTriangle(p, q[1], q[2], q[3])
    ELSE IF Det(q[1], q[3], q[2]) * Det(q[1], q[3], q[4]) < 0
    THEN \/ InTriangle(p, q[1], q[2], q[3])
         \/ InTriangle(p, q[1], q[3], q[4])
         \/ OnSegment(p, q[1], q[3])
    ELSE \/ InTriangle(p, q[2], q[3], q[4])
         \/ InTriangle(p, q[2], q[4], q[1])
         \/ OnSegment(p, q[2], q[4])

TheSquare ==
    <<[lat |-> 0, lon |-> 0], [lat |-> 0, lon |-> 4], [lat |-> 4, lon |-> 4],
      [lat |-> 4, lon |-> 0]>>

\* C13: is_point_inside_polygon is the ray-casting parity test over all
\* edges, the closing edge from the last vertex to the first included: for a
\* simple polygon and a point not on its boundary it returns true exactly
\* when the point is inside; for the square it is true at the centre and
\* false at a point beside the square.
C13_RayCasting ==
    pc = "asked" =>
        /\ ~ret.raised
        /\ SimplePolygon(call.polygon) /\ ~OnBoundary(call.point, call.polygon)
           => (ret.value <=> StrictlyInside(call.point, call.polygon))
        /\ call.polygon = TheSquare /\ call.point = [lat |-> 2, lon |-> 2]
           => ret.value = TRUE
        /\ call.polygon = TheSquare /\ call.point = [lat |-> 6, lon |-> 2]
           => ret.value = FALSE

\* C13's case: a point inside a triangle, whose ray runs through a vertex
\* and crosses the closing edge only, has been found inside.
C13_Witness ==
    /\ pc = "asked"
    /\ call.polygon = <<[lat |-> 2, lon |-> 2], [lat |-> 0, lon |-> 0],
                        [lat |-> 0, lon |-> 4]>>
    /\ call.point = [lat |-> 1, lon |-> 2]
    /\ StrictlyInside(call.point, call.polygon)
    /\ ret.value = TRUE

\* C14: for a polygon of fewer than 3 vertices (0, 1 or 2) and every point,
\* is_point_inside_polygon returns false and raises no error.
C14_FewVertices ==
    pc = "asked" /\ Len(call.polygon) < 3 =>
        ~ret.raised /\ ret.value = FALSE

\* C14's case: a point between the two vertices of a polygon of 2 vertices
\* was asked about.
C14_Witness ==
    /\ pc = "asked"
    /\ call.polygon = <<[lat |-> 0, lon |-> 0], [lat |-> 4, lon |-> 4]>>
    /\ call.point = [lat |-> 2, lon |-> 2]
    /\ ret.value = FALSE

\* C15: triangle_area never raises for a degenerate or collinear triangle:
\* a negative radicand of Heron's formula, from the rounding of the three
\* sides, is taken as zero and the area returned is 0.
C15_RadicandClamped ==
    /\ pc = "area"
    /\ call.unit \in Enumeration(call.op)
    /\ Det(call.point1, call.point2, call.point3) = 0
    => /\ ~ret.raised
       /\ ret.value >= 0

\* C16: centroid and bounding_box each raise their empty-list error and
\* return no value for an empty list of points, and raise nothing for a list
\* that is not empty.
C16_EmptyInput ==
    pc \in {"averaged", "boxed"} =>
        /\ ret.raised <=> call.points = <<>>
        /\ ret.raised =>
              /\ ret.value = <<>>
              /\ ret.message =
                    IF call.op = "centroid"
                    THEN <<"Cannot calculate centroid of an empty list of points">>
                    ELSE <<"Cannot calculate bounding box of an empty list of points">>
        /\ ~ret.raised => ret.value # <<>>

\* C16's case: bounding_box of the empty list has raised.
C16_Witness ==
    /\ pc = "boxed"
    /\ call.points = <<>>
    /\ ret.raised

\* The sum of the coordinates of the first k points on one axis.
RECURSIVE Total(_, _, _)
Total(points, axis, k) ==
    IF k = 0 THEN 0 ELSE Total(points, axis, k - 1) + Coordinate(points[k], axis)

\* C17: for a list of n > 0 points centroid returns (sum of the latitudes / n,
\* sum of the longitudes / n); the centroid of a single point is that point.
C17_Mean ==
    pc = "averaged" /\ call.points # <<>> =>
        LET n == Len(call.points)
        IN  /\ ~ret.raised
            /\ ret.value.lat.den # 0 /\ ret.value.lon.den # 0
            /\ ret.value.lat.num * n = Total(call.points, 0, n) * ret.value.lat.den
            /\ ret.value.lon.num * n = Total(call.points, 1, n) * ret.value.lon.den
            /\ n = 1 =>
                  /\ ret.value.lat.num = call.points[1].lat * ret.value.lat.den
                  /\ ret.value.lon.num = call.points[1].lon * ret.value.lon.den

\* C17's case: the centroid of three different points, which is no point of
\* the grid.
C17_Witness ==
    /\ pc = "averaged"
    /\ call.points = <<[lat |-> 0, lon |-> 0], [lat |-> 1, lon |-> 2],
                       [lat |-> 1, lon |-> 0]>>
    /\ ret.value.lat = [num |-> 2, den |-> 3]
    /\ ret.value.lon = [num |-> 2, den |-> 3]

\* C18: for a list of points that is not empty bounding_box returns
\* ((min_lat, min_lon), (max_lat, max_lon)): every point lies between the two
\* corners on both axes and each of the four numbers is the coordinate of
\* some point, so for a single point both corners are that point.
C18_BoundingBox ==
    pc = "boxed" /\ call.points # <<>> =>
        LET low  == ret.value[1]
            high == ret.value[2]
            at   == 1 .. Len(call.points)
        IN  /\ ~ret.raised
            /\ \A i \in at :
                  /\ low.lat <= call.points[i].lat /\ call.points[i].lat <= high.lat
                  /\ low.lon <= call.points[i].lon /\ call.points[i].lon <= high.lon
            /\ \E i \in at : call.points[i].lat = low.lat
            /\ \E i \in at : call.points[i].lon = low.lon
            /\ \E i \in at : call.points[i].lat = high.lat
            /\ \E i \in at : call.points[i].lon = high.lon
            /\ Len(call.points) = 1 => low = call.points[1] /\ high = call.points[1]

\* C18's case: a box none of whose corners is one of the points.
C18_Witness ==
    /\ pc = "boxed"
    /\ call.points = <<[lat |-> 1, lon |-> 0], [lat |-> 0, lon |-> 1],
                       [lat |-> 2, lon |-> 2]>>
    /\ ret.value = <<[lat |-> 0, lon |-> 0], [lat |-> 2, lon |-> 2]>>

ErrorLines == {i \in 1 .. Len(stdout) : stdout[i].label = "Error: "}

\* C19: in the geometry and coords handlers no partial result accompanies an
\* error: handle returns 1 exactly when it printed an error line, and then it
\* printed no result line before it; it returns 0 exactly when it printed
\* the whole result and no error line, the circumcenter mode with --radius
\* included.
C19_NoPartialResult ==
    pc = "exited" =>
        /\ ret.code = 1 <=> ErrorLines # {}
        /\ ret.code = 1 => Len(stdout) = 1
        /\ ret.code = 0 =>
              /\ ErrorLines = {}
              /\ stdout # <<>>
              /\ call.mode = "circumcenter" /\ call.radius => Len(stdout) = 2

\* C21: orthocenter checks no collinearity, and for every collinear triple of
\* points, triples of equal latitude or equal longitude included, it either
\* fails with a division by zero or returns a coordinate holding inf or NaN:
\* it never returns a finite point.
C21_CollinearNeverFinite ==
    /\ pc = "orthocentered"
    /\ Det(call.point1, call.point2, call.point3) = 0
    => \/ ret.raised
       \/ ~IsFinite(ret.value.lat)
       \/ ~IsFinite(ret.value.lon)

\* The values of an ascii-to-text or a1z26 to-letters input, as split() gives
\* them.
RECURSIVE Values(_)
Values(text) ==
    LET start == CHOOSE i \in 1 .. Len(text) + 1 :
                     /\ \A k \in 1 .. i - 1 : text[k] \in Space
                     /\ i <= Len(text) => text[i] \notin Space
        stop == CHOOSE i \in start .. Len(text) + 1 :
                     /\ \A k \in start .. i - 1 : text[k] \notin Space
                     /\ i <= Len(text) => text[i] \in Space
    IN  IF start > Len(text) THEN {}
        ELSE {SubSeq(text, start, stop - 1)} \cup Values(SubSeq(text, stop, Len(text)))

\* A value that is a whole number: a sign, or none, and digits.
WholeNumber(v) ==
    \E sign \in {<<>>, <<"-">>, <<"+">>}, digits \in {SubSeq(v, k, Len(v)) : k \in 1 .. 2} :
        /\ v = sign \o digits
        /\ digits # <<>>
        /\ \A i \in 1 .. Len(digits) : digits[i] \in Digit

\* The helper the call selects cannot process its input.
Failed ==
    \/ /\ call.mode = "ascii-to-text"
       /\ \E v \in Values(call.input) :
             WholeNumber(v) => int(v) < 0 \/ int(v) > MaxCodePoint
    \/ call.mode = "anagram" /\ call.wordlist = Unreadable
    \/ /\ call.mode = "a1z26"
       /\ \/ call.direction = "None"
          \/ /\ call.direction = "to-letters"
             /\ \E v \in Values(call.input) : ~WholeNumber(v)

\* C22: in the tools handler every failed operation ends with exit code 1:
\* when the selected helper cannot process its input (ASCII values that are no
\* integers or no code points, a wordlist that cannot be read, a1z26 input
\* that is no number, no --direction), handle returns 1, and it returns 0
\* only when what it printed is a genuine result.
C22_FailureExitsOne ==
    pc = "exited" /\ call.op = "puzzle_tools.handle" =>
        /\ ret.code \in {0, 1}
        /\ Failed => ret.code = 1

\* The alphabet in its two cases, and the letters that are not ASCII.
Small == <<"a", "b", "c", "d", "e", "f", "g", "h", "i", "j", "k", "l", "m",
           "n", "o", "p", "q", "r", "s", "t", "u", "v", "w", "x", "y", "z">>

Capital == <<"A", "B", "C", "D", "E", "F", "G", "H", "I", "J", "K", "L", "M",
             "N", "O", "P", "Q", "R", "S", "T", "U", "V", "W", "X", "Y", "Z">>

IsSmall(c) == \E i \in 1 .. 26 : Small[i] = c

IsCapital(c) == \E i \in 1 .. 26 : Capital[i] = c

IsLetter(c) == IsSmall(c) \/ IsCapital(c)

IsAlphabetic(c) == IsLetter(c) \/ c \in {"eacute", "Eacute"}

\* The place of an ASCII letter in the alphabet, a and A at 0.
Place(c) == (CHOOSE i \in 1 .. 26 : Small[i] = c \/ Capital[i] = c) - 1

\* The upper-cased letters of text, in order.
UpperLetters(text) ==
    LET letters == SelectSeq(text, IsAlphabetic)
    IN  [i \in 1 .. Len(letters) |->
            IF letters[i] \in {"eacute", "Eacute"} THEN "Eacute"
            ELSE Capital[Place(letters[i]) + 1]]

\* C23: number_to_letter and letter_to_number share one offset convention:
\* for every offset k and every text, number_to_letter(letter_to_number(text,
\* k), k) is the upper-cased letters of text in order; so with offset 1 the
\* number 0 that 'A' maps to maps back to 'A'.
C23_OffsetRoundTrip ==
    pc = "lettered" => ret = UpperLetters(call.text)

\* C24: vigenere_decode with a key of letters that is not empty keeps a key
\* position that starts at 0 and advances by one on each alphabetic character
\* and on no other: each ASCII letter becomes the letter (c - k) mod 26 of
\* its own case, k the key letter at the position modulo the key's length,
\* and every character that is not alphabetic is copied.
C24_Vigenere ==
    /\ pc = "decoded"
    /\ call.key # <<>>
    /\ \A i \in 1 .. Len(call.key) : IsLetter(call.key[i])
    => /\ ~ret.raised
       /\ Len(ret.value) = Len(call.text)
       /\ \A i \in 1 .. Len(call.text) :
             LET c == call.text[i]
                 position == Cardinality({h \in 1 .. i - 1 : IsAlphabetic(call.text[h])})
                 k == Place(call.key[(position % Len(call.key)) + 1])
                 to == ((Place(c) - k) % 26) + 1
             IN  /\ IsSmall(c) => ret.value[i] = Small[to]
                 /\ IsCapital(c) => ret.value[i] = Capital[to]
                 /\ ~IsAlphabetic(c) => ret.value[i] = c

\* C24's case: "Rijvs, uyvjn!" is decoded with the key "key" to "Hello,
\* world!", the key standing still on the comma and the blank.
C24_Witness ==
    /\ pc = "decoded"
    /\ call.text = <<"R", "i", "j", "v", "s", ",", " ", "u", "y", "v", "j", "n", "!">>
    /\ call.key = <<"k", "e", "y">>
    /\ ret = Returned(<<"H", "e", "l", "l", "o", ",", " ", "w", "o", "r", "l", "d", "!">>)

\* The fields of a formatted coordinate that end with the mark, the mark cut
\* off, and the whole part of a field.
FieldsOf(text, mark) ==
    {SubSeq(f, 1, Len(f) - 1) :
        f \in {split(text)[i] : i \in {k \in 1 .. Len(split(text)) :
                                        split(text)[k][Len(split(text)[k])] = mark}}}

WholePart(field) == IntVal(SubSeq(field, 1, DotAt(field, 1) - 1))

\* C25: in every 'ddm' and 'dms' string format_coordinate produces, each
\* minutes field and each seconds field is a value in [0, 60) and each degree
\* field is a whole number that is not negative, also when the fraction
\* rounds up at the third digit shown, as for 47.9999999 degrees.
C25_FieldsBelowSixty ==
    /\ pc = "formatted"
    /\ call.format \in {"ddm", "dms"}
    => /\ ~ret.raised
       /\ \A f \in FieldsOf(ret.value, "deg") :
             f # <<>> /\ \A i \in 1 .. Len(f) : f[i] \in Digit
       /\ \A f \in FieldsOf(ret.value, "'") \cup FieldsOf(ret.value, "dquote") :
             /\ f # <<>>
             /\ \A i \in 1 .. Len(f) : f[i] \in Digit \cup {"."}
             /\ WholePart(f) < 60

\* C26: is_point_inside_polygon never divides by zero: for every point and
\* every polygon of at least 3 vertices, with edges of equal second
\* coordinate, repeated vertices or a last vertex equal to the first, the
\* quotient by (yj - yi) is evaluated only for edges with yi # yj, and the
\* loop ends after visiting each edge once.
C26_NoDivisionByZero ==
    pc = "asked" /\ Len(call.polygon) >= 3 =>
        LET n == Len(call.polygon)
        IN  /\ ~ret.raised
            /\ \A r \in 1 .. Len(trail) :
                  trail[r].divided =>
                      call.polygon[trail[r].i].lon # call.polygon[trail[r].j].lon
            /\ Len(trail) = n
            /\ \A k \in 1 .. n :
                  Cardinality({r \in 1 .. n :
                      trail[r].j = k /\ trail[r].i = (k % n) + 1}) = 1

\* C26's case: a point was asked about in a polygon whose first edge has
\* equal second coordinates at both ends and whose last vertex is the first.
C26_Witness ==
    /\ pc = "asked"
    /\ call.polygon = <<[lat |-> 0, lon |-> 0], [lat |-> 4, lon |-> 0],
                        [lat |-> 4, lon |-> 4], [lat |-> 0, lon |-> 0]>>
    /\ call.point = [lat |-> 3, lon |-> 1]
    /\ \E r \in 1 .. Len(trail) : trail[r].divided
    /\ \E r \in 1 .. Len(trail) : ~trail[r].divided /\ trail[r].by = 0
    /\ ~ret.raised

\* C27: project_waypoint converts a distance to kilometers with the exact
\* inverse of the factor distance has for the unit (0.621371 mi and 0.539957
\* nm per km): for every distance d in km, mi or nm, d converted to kilometers
\* as project_waypoint does and back as distance does is d again.
C27_ExactInverse ==
    pc = "converted" =>
        ret = [millions |-> call.distance * Pow10(5), rest |-> 0]

====
